---- MODULE Spec2Model ----
(***************************************************************************)
(* Model of the goify request dispatcher: the Router with its flat         *)
(* (method, path) table, root middleware chain and route groups            *)
(* (router.go, middleware), and the RouteNode prefix tree with its         *)
(* backtracking lookup (the route-tree part of response.go).               *)
(*                                                                         *)
(* Text is modelled as a sequence of one-character strings, so that the    *)
(* prefix tests, trimming, splitting and joining done by the code are      *)
(* computed here the way package strings computes them.                    *)
(***************************************************************************)
EXTENDS Integers, Sequences, FiniteSets, TLC

VARIABLES
    root,        \* the RouteNode tree: node id (sequence of child keys) -> node
    trieRegs,    \* history: the calls RouteNode.addRoute(path, method, handler)
    found,       \* history: the last findRoute call and what it returned
    routes,      \* Router.routes: method -> (path -> handler)
    middleware,  \* Router.middleware
    groups,      \* the RouterGroup objects created so far
    grpRegs,     \* history: how each group was made and the Use calls on it
    rtRegs,      \* history: the calls Router.addRoute(method, path, handler), with
                 \* the path given by the caller and the group's chain at the call
    calls,       \* history: how many registration calls were made on the Router
    request,     \* the request ServeHTTP is handling / has handled last
    cursors,     \* the `index` variable of each chain execution of the request
    stack,       \* the interceptor calls of the request that have not returned
    trace,       \* history: what ran for the request, in order
    cleaned,     \* history: the last cleanPath call and what it returned
    globalShutdownCallbacks,  \* the package variable of shutdown.go
    graceful,    \* the call of ListenAndServeWithGracefulShutdown: position, cfg,
                 \* whether a config was passed, index of the callback loop
    server,      \* the goroutine running rt.Listen and the http.Server
    hookLog,     \* history: registrations, signal, callbacks run, server shutdown
    rl,          \* the RateLimiter: requests (address -> times), limit, window
    clock,       \* time.Now()
    goroutines,  \* the requests inside RateLimiter.Middleware, one goroutine each
    rlLog,       \* history: the requests the limiter passed on or answered 429
    ctx,         \* a Context: its params map, and the last setParam call on it
    flights      \* the requests being served at once, one ServeHTTP call each

trieVars     == <<root, trieRegs, found>>
routerVars   == <<routes, middleware, groups, grpRegs, rtRegs, calls, request, cursors,
                  stack, trace>>
cleanVars    == <<cleaned>>
shutdownVars == <<globalShutdownCallbacks, graceful, server, hookLog>>
limiterVars  == <<rl, clock, goroutines, rlLog>>
contextVars  == <<ctx>>
flightVars   == <<flights>>
vars         == <<root, trieRegs, found, routes, middleware, groups, grpRegs, rtRegs,
                  calls, request, cursors, stack, trace, cleaned,
                  globalShutdownCallbacks, graceful, server, hookLog,
                  rl, clock, goroutines, rlLog, ctx, flights>>

\* what the operations on one component leave alone
besideTrie     == <<routerVars, cleanVars, shutdownVars, limiterVars, contextVars,
                    flightVars>>
besideRouter   == <<trieVars, cleanVars, shutdownVars, limiterVars, contextVars,
                    flightVars>>
besideClean    == <<trieVars, routerVars, shutdownVars, limiterVars, contextVars,
                    flightVars>>
besideShutdown == <<trieVars, routerVars, cleanVars, limiterVars, contextVars,
                    flightVars>>
besideLimiter  == <<trieVars, routerVars, cleanVars, shutdownVars, contextVars,
                    flightVars>>
besideContext  == <<trieVars, routerVars, cleanVars, shutdownVars, limiterVars,
                    flightVars>>
besideFlights  == <<trieVars, cleanVars, shutdownVars, limiterVars, contextVars>>

----------------------------------------------------------------------------
(* Bounds                                                                  *)

MaxTrieRegs    == 3   \* calls of RouteNode.addRoute in one run
MaxRouterCalls == 2   \* registration calls in one run that exercises the table
MaxChainCalls  == 5   \* registration calls in one run that exercises the chains
MaxPathLen     == 6   \* length of the texts given to cleanPath
MaxCallbacks   == 3   \* calls of Router.OnShutdown in one run
MaxLimit       == 2   \* largest limit given to NewRateLimiter
MaxWindow      == 2   \* largest window given to NewRateLimiter, in clock ticks
MaxClock       == 2   \* clock ticks in one run
MaxRequests    == 3   \* requests that enter the rate limiter in one run
MaxValueLen    == 3   \* length of the values given to Context.setParam
MaxFlightCalls == 5   \* registration calls before requests are served at once
MaxFlights     == 2   \* requests served at once
MaxPanicCalls  == 4   \* registration calls in one run that exercises panics
MaxAgainCalls  == 4   \* registration calls in one run with repeated next()
MaxAgain       == 1   \* repeated calls of next() in one request

----------------------------------------------------------------------------
(* package strings                                                         *)

HasPrefix(s, prefix) ==
    Len(s) >= Len(prefix) /\ SubSeq(s, 1, Len(prefix)) = prefix

HasSuffix(s, suffix) ==
    Len(s) >= Len(suffix) /\ SubSeq(s, Len(s) - Len(suffix) + 1, Len(s)) = suffix

TrimSuffix(s, suffix) ==
    IF HasSuffix(s, suffix) THEN SubSeq(s, 1, Len(s) - Len(suffix)) ELSE s

RECURSIVE TrimLeft(_, _)
TrimLeft(s, c) ==
    IF s # <<>> /\ Head(s) = c THEN TrimLeft(Tail(s), c) ELSE s

RECURSIVE TrimRight(_, _)
TrimRight(s, c) ==
    IF s # <<>> /\ s[Len(s)] = c THEN TrimRight(SubSeq(s, 1, Len(s) - 1), c) ELSE s

Trim(s, c) == TrimRight(TrimLeft(s, c), c)

\* strings.Split(s, sep) for a one-character sep: every piece, empty ones too
RECURSIVE SplitFrom(_, _, _)
SplitFrom(s, c, piece) ==
    IF s = <<>> THEN <<piece>>
    ELSE IF Head(s) = c THEN <<piece>> \o SplitFrom(Tail(s), c, <<>>)
    ELSE SplitFrom(Tail(s), c, Append(piece, Head(s)))

Split(s, c) == SplitFrom(s, c, <<>>)

RECURSIVE Join(_, _)
Join(elems, c) ==
    IF elems = <<>> THEN <<>>
    ELSE IF Len(elems) = 1 THEN elems[1]
    ELSE elems[1] \o <<c>> \o Join(Tail(elems), c)

----------------------------------------------------------------------------
(* Texts used as inputs                                                    *)

Slash == <<"/">>
sA == <<"a">>
sB == <<"b">>
sC == <<"c">>
pX == <<":", "x">>
pY == <<":", "y">>
wW == <<"*", "w">>
wV == <<"*", "v">>

\* the path /s1/s2/.../sn
PathOf(segs) == Slash \o Join(segs, "/")

Methods == {"GET", "POST"}

\* a nil HandlerFunc; the handlers passed to addRoute are 1, 2, ...
NilHandler == 0

----------------------------------------------------------------------------
(* RouteNode (response.go)                                                 *)

ParamChild == <<"*", "p", "a", "r", "a", "m", "*">>   \* children["*param*"]
WildChild  == <<"*", "w", "i", "l", "d", "*">>        \* children["*wild*"]

NoParams == <<>>      \* make(map[string]string)

NewRouteNode ==
    [path |-> <<>>, handlers |-> <<>>, paramKey |-> <<>>,
     isParam |-> FALSE, isWild |-> FALSE]

\* delete(m, key)
MapDelete(m, key) == [k \in (DOMAIN m) \ {key} |-> m[k]]

\* m[key] = value
MapPut(m, key, value) == (key :> value) @@ m

splitPath(path) ==
    IF path = Slash THEN << <<>> >>
    ELSE IF Trim(path, "/") = <<>> THEN << <<>> >>
    ELSE Split(Trim(path, "/"), "/")

\* a descent that gives a parameter or wildcard child the name of the
\* segment it is reached by, whether or not the child was there
RECURSIVE DescendLastName(_, _, _)
DescendLastName(t, current, segments) ==
    IF segments = <<>> THEN [tree |-> t, node |-> current]
    ELSE LET segment == Head(segments) IN
         IF segment = <<>> THEN DescendLastName(t, current, Tail(segments))
         ELSE IF HasPrefix(segment, <<":">>) THEN
              LET child == Append(current, ParamChild)
                  t1 == IF child \in DOMAIN t
                        THEN [t EXCEPT ![child].paramKey = Tail(segment)]
                        ELSE (child :> [NewRouteNode EXCEPT !.isParam = TRUE,
                                            !.paramKey = Tail(segment)]) @@ t
              IN DescendLastName(t1, child, Tail(segments))
         ELSE IF HasPrefix(segment, <<"*">>) THEN
              LET child == Append(current, WildChild)
                  t1 == IF child \in DOMAIN t
                        THEN [t EXCEPT ![child].paramKey = Tail(segment)]
                        ELSE (child :> [NewRouteNode EXCEPT !.isWild = TRUE,
                                            !.paramKey = Tail(segment)]) @@ t
              IN [tree |-> t1, node |-> child]
         ELSE LET child == Append(current, segment)
                  t1 == IF child \in DOMAIN t THEN t
                        ELSE (child :> NewRouteNode) @@ t
              IN DescendLastName(t1, child, Tail(segments))

\* a descent that goes on below a wildcard child
RECURSIVE DescendPastWildcard(_, _, _)
DescendPastWildcard(t, current, segments) ==
    IF segments = <<>> THEN [tree |-> t, node |-> current]
    ELSE LET segment == Head(segments) IN
         IF segment = <<>> THEN DescendPastWildcard(t, current, Tail(segments))
         ELSE IF HasPrefix(segment, <<":">>) THEN
              LET child == Append(current, ParamChild)
                  t1 == IF child \in DOMAIN t THEN t
                        ELSE (child :> [NewRouteNode EXCEPT !.isParam = TRUE,
                                            !.paramKey = Tail(segment)]) @@ t
              IN DescendPastWildcard(t1, child, Tail(segments))
         ELSE IF HasPrefix(segment, <<"*">>) THEN
              LET child == Append(current, WildChild)
                  t1 == IF child \in DOMAIN t THEN t
                        ELSE (child :> [NewRouteNode EXCEPT !.isWild = TRUE,
                                            !.paramKey = Tail(segment)]) @@ t
              IN DescendPastWildcard(t1, child, Tail(segments))
         ELSE LET child == Append(current, segment)
                  t1 == IF child \in DOMAIN t THEN t
                        ELSE (child :> NewRouteNode) @@ t
              IN DescendPastWildcard(t1, child, Tail(segments))

\* the descent of addRoute: the tree with the nodes the remaining segments
\* need, and the node the descent ends on
RECURSIVE Descend(_, _, _)
Descend(t, current, segments) ==
    IF segments = <<>> THEN [tree |-> t, node |-> current]
    ELSE LET segment == Head(segments) IN
         IF segment = <<>> THEN Descend(t, current, Tail(segments))
         ELSE IF HasPrefix(segment, <<":">>) THEN
              LET child == Append(current, ParamChild)
                  t1 == IF child \in DOMAIN t THEN t
                        ELSE (child :> [NewRouteNode EXCEPT !.isParam = TRUE,
                                            !.paramKey = Tail(segment)]) @@ t
              IN Descend(t1, child, Tail(segments))
         ELSE IF HasPrefix(segment, <<"*">>) THEN
              LET child == Append(current, WildChild)
                  t1 == IF child \in DOMAIN t THEN t
                        ELSE (child :> [NewRouteNode EXCEPT !.isWild = TRUE,
                                            !.paramKey = Tail(segment)]) @@ t
              IN [tree |-> t1, node |-> child]
         ELSE LET child == Append(current, segment)
                  t1 == IF child \in DOMAIN t THEN t
                        ELSE (child :> NewRouteNode) @@ t
              IN Descend(t1, child, Tail(segments))

\* an addRoute that keeps the handler a node already has for the method
addRouteKeepFirst(t, node, path, method, handler) ==
    LET d == Descend(t, node, splitPath(path))
    IN IF method \in DOMAIN d.tree[d.node].handlers THEN d.tree
       ELSE [d.tree EXCEPT ![d.node].handlers = MapPut(@, method, handler),
                           ![d.node].path = path]

\* node.addRoute(path, method, handler) on the tree t rooted at node
addRoute(t, node, path, method, handler) ==
    LET d == Descend(t, node, splitPath(path))
    IN [d.tree EXCEPT ![d.node].handlers = MapPut(@, method, handler),
                      ![d.node].path = path]

\* searchRoute with the parameter child tried before the literal child
RECURSIVE searchRouteParamFirst(_, _, _, _, _, _)
searchRouteParamFirst(t, node, segments, index, method, params) ==
    IF index >= Len(segments) THEN
        [handler |-> IF method \in DOMAIN t[node].handlers
                     THEN t[node].handlers[method] ELSE NilHandler,
         params |-> params]
    ELSE
    LET segment == segments[index + 1] IN
    IF segment = <<>>
    THEN searchRouteParamFirst(t, node, segments, index + 1, method, params)
    ELSE
    LET paramNode == Append(node, ParamChild)
        par == IF paramNode \in DOMAIN t
               THEN searchRouteParamFirst(t, paramNode, segments, index + 1, method,
                                MapPut(params, t[paramNode].paramKey, segment))
               ELSE [handler |-> NilHandler, params |-> params]
    IN
    IF par.handler # NilHandler THEN par
    ELSE
    LET afterParam == IF paramNode \in DOMAIN t
                      THEN MapDelete(par.params, t[paramNode].paramKey)
                      ELSE par.params
        child == Append(node, segment)
        lit == IF child \in DOMAIN t
               THEN searchRouteParamFirst(t, child, segments, index + 1, method, afterParam)
               ELSE [handler |-> NilHandler, params |-> afterParam]
    IN
    IF lit.handler # NilHandler THEN lit
    ELSE
    LET wildNode == Append(node, WildChild) IN
    IF wildNode \in DOMAIN t THEN
        LET remaining == Join(SubSeq(segments, index + 1, Len(segments)), "/")
            bound == MapPut(lit.params, t[wildNode].paramKey, remaining)
        IN IF method \in DOMAIN t[wildNode].handlers
           THEN [handler |-> t[wildNode].handlers[method], params |-> bound]
           ELSE [handler |-> NilHandler, params |-> bound]
    ELSE [handler |-> NilHandler, params |-> lit.params]

\* searchRoute that commits to the literal child when there is one
RECURSIVE searchRouteCommit(_, _, _, _, _, _)
searchRouteCommit(t, node, segments, index, method, params) ==
    IF index >= Len(segments) THEN
        [handler |-> IF method \in DOMAIN t[node].handlers
                     THEN t[node].handlers[method] ELSE NilHandler,
         params |-> params]
    ELSE
    LET segment == segments[index + 1] IN
    IF segment = <<>>
    THEN searchRouteCommit(t, node, segments, index + 1, method, params)
    ELSE
    LET child == Append(node, segment) IN
    IF child \in DOMAIN t
    THEN searchRouteCommit(t, child, segments, index + 1, method, params)
    ELSE
    LET paramNode == Append(node, ParamChild)
        par == IF paramNode \in DOMAIN t
               THEN searchRouteCommit(t, paramNode, segments, index + 1, method,
                                MapPut(params, t[paramNode].paramKey, segment))
               ELSE [handler |-> NilHandler, params |-> params]
    IN
    IF par.handler # NilHandler THEN par
    ELSE
    LET afterParam == IF paramNode \in DOMAIN t
                      THEN MapDelete(par.params, t[paramNode].paramKey)
                      ELSE par.params
        wildNode == Append(node, WildChild)
    IN
    IF wildNode \in DOMAIN t THEN
        LET remaining == Join(SubSeq(segments, index + 1, Len(segments)), "/")
            bound == MapPut(afterParam, t[wildNode].paramKey, remaining)
        IN IF method \in DOMAIN t[wildNode].handlers
           THEN [handler |-> t[wildNode].handlers[method], params |-> bound]
           ELSE [handler |-> NilHandler, params |-> bound]
    ELSE [handler |-> NilHandler, params |-> afterParam]

\* node.searchRoute(segments, index, method, params): the handler returned
\* and the params map as the call leaves it
RECURSIVE searchRoute(_, _, _, _, _, _)
searchRoute(t, node, segments, index, method, params) ==
    IF index >= Len(segments) THEN
        [handler |-> IF method \in DOMAIN t[node].handlers
                     THEN t[node].handlers[method] ELSE NilHandler,
         params |-> params]
    ELSE
    LET segment == segments[index + 1] IN
    IF segment = <<>> THEN searchRoute(t, node, segments, index + 1, method, params)
    ELSE
    LET child == Append(node, segment)
        lit == IF child \in DOMAIN t
               THEN searchRoute(t, child, segments, index + 1, method, params)
               ELSE [handler |-> NilHandler, params |-> params]
    IN
    IF lit.handler # NilHandler THEN lit
    ELSE
    LET paramNode == Append(node, ParamChild)
        par == IF paramNode \in DOMAIN t
               THEN searchRoute(t, paramNode, segments, index + 1, method,
                                MapPut(lit.params, t[paramNode].paramKey, segment))
               ELSE [handler |-> NilHandler, params |-> lit.params]
    IN
    IF par.handler # NilHandler THEN par
    ELSE
    LET afterParam == IF paramNode \in DOMAIN t
                      THEN MapDelete(par.params, t[paramNode].paramKey)
                      ELSE par.params
        wildNode == Append(node, WildChild)
    IN
    IF wildNode \in DOMAIN t THEN
        LET remaining == Join(SubSeq(segments, index + 1, Len(segments)), "/")
            bound == MapPut(afterParam, t[wildNode].paramKey, remaining)
        IN IF method \in DOMAIN t[wildNode].handlers
           THEN [handler |-> t[wildNode].handlers[method], params |-> bound]
           ELSE [handler |-> NilHandler, params |-> bound]
    ELSE [handler |-> NilHandler, params |-> afterParam]

\* a findRoute that falls back on the handler of another method
findRouteAnyMethod(t, node, path, method) ==
    LET r == searchRoute(t, node, splitPath(path), 0, method, NoParams)
        others == { m \in Methods :
                      searchRoute(t, node, splitPath(path), 0, m, NoParams).handler
                          # NilHandler }
    IN IF r.handler # NilHandler \/ others = {} THEN r
       ELSE searchRoute(t, node, splitPath(path), 0, CHOOSE m \in others : TRUE, NoParams)

\* node.findRoute(path, method)
findRoute(t, node, path, method) ==
    searchRoute(t, node, splitPath(path), 0, method, NoParams)

\* the patterns registered in the tree and the paths looked up in it
TriePatterns ==
    { PathOf(<<sA, sB>>), PathOf(<<sA, pX>>), PathOf(<<sA, wW>>),
      PathOf(<<pY, sB>>), PathOf(<<pY, pX>>) }

TriePaths ==
    { PathOf(<<sA, sB>>), PathOf(<<sA, sB>>) \o Slash, PathOf(<<sA, sC>>),
      PathOf(<<sC, sB>>), PathOf(<<sA, sB, sC>>),
      PathOf(<<sA, ParamChild>>), PathOf(<<sA, WildChild>>) }

NoLookup == [path |-> <<>>, method |-> "", handler |-> NilHandler, params |-> NoParams]

\* root.addRoute(path, method, handler) with a handler not registered before
TrieAddRoute ==
    /\ Len(trieRegs) < MaxTrieRegs
    /\ \E path \in TriePatterns, method \in Methods :
         LET handler == Len(trieRegs) + 1 IN
         /\ root' = addRoute(root, <<>>, path, method, handler)
         /\ trieRegs' = Append(trieRegs,
                [path |-> path, method |-> method, handler |-> handler])
    /\ found' = NoLookup
    /\ UNCHANGED besideTrie

\* patterns that meet at one parameter or wildcard child under different
\* names, a wildcard followed by more segments, one name at two depths; and
\* the paths looked up among them
NamePatterns ==
    { PathOf(<<sA, pX>>), PathOf(<<sA, pY>>), PathOf(<<sA, wW>>),
      PathOf(<<sA, wV>>), PathOf(<<sA, wW, sB>>), PathOf(<<pX, pX>>) }

NamePaths == { PathOf(<<sA, sB>>), PathOf(<<sA, sB, sC>>), PathOf(<<sB, sC>>) }

NameMethods == {"GET"}

\* root.addRoute(path, method, handler) with a pattern of NamePatterns
NamesAddRoute ==
    /\ Len(trieRegs) < MaxTrieRegs
    /\ \E path \in NamePatterns, method \in NameMethods :
         LET handler == Len(trieRegs) + 1 IN
         /\ root' = addRoute(root, <<>>, path, method, handler)
         /\ trieRegs' = Append(trieRegs,
                [path |-> path, method |-> method, handler |-> handler])
    /\ found' = NoLookup
    /\ UNCHANGED besideTrie

\* root.findRoute(path, method) with a path of NamePaths
NamesFindRoute ==
    /\ \E path \in NamePaths, method \in Methods :
         LET r == findRoute(root, <<>>, path, method) IN
         found' = [path |-> path, method |-> method,
                   handler |-> r.handler, params |-> r.params]
    /\ UNCHANGED <<root, trieRegs>>
    /\ UNCHANGED besideTrie

\* a findRoute that makes the child node it looks for at the root
TrieFindRouteCreating ==
    /\ \E path \in TriePaths, method \in Methods :
         LET r == findRoute(root, <<>>, path, method)
             child == <<Head(SelectSeq(splitPath(path), LAMBDA seg : seg # <<>>))>>
         IN /\ found' = [path |-> path, method |-> method,
                         handler |-> r.handler, params |-> r.params]
            /\ root' = IF child \in DOMAIN root THEN root
                       ELSE (child :> NewRouteNode) @@ root
    /\ UNCHANGED trieRegs
    /\ UNCHANGED besideTrie

\* root.findRoute(path, method)
TrieFindRoute ==
    /\ \E path \in TriePaths, method \in Methods :
         LET r == findRoute(root, <<>>, path, method) IN
         found' = [path |-> path, method |-> method,
                   handler |-> r.handler, params |-> r.params]
    /\ UNCHANGED <<root, trieRegs>>
    /\ UNCHANGED besideTrie

----------------------------------------------------------------------------
(* Router, RouterGroup (router.go) and the chain engine                    *)

\* A HandlerFunc stored in the table: the handler fn itself (group = 0), or
\* the wrappedHandler closure RouterGroup.addRoute builds around fn, which
\* holds the group it was registered on
Plain(fn)      == [fn |-> fn, group |-> 0]
Wrapped(fn, g) == [fn |-> fn, group |-> g]
NoRoute        == [fn |-> NilHandler, group |-> 0]

\* if len(path) > 1 && strings.HasSuffix(path, "/") { path = TrimSuffix(path, "/") }
TrimTrailingSlash(path) ==
    IF Len(path) > 1 /\ HasSuffix(path, Slash) THEN TrimSuffix(path, Slash) ELSE path

\* rt.addRoute(method, path, handler): the table afterwards
RouterAddRoute(rts, method, path, handler) ==
    LET key == TrimTrailingSlash(path)
        methodRoutes == IF method \in DOMAIN rts THEN rts[method] ELSE <<>>
    IN MapPut(rts, method, MapPut(methodRoutes, key, handler))

\* the table lookup of ServeHTTP: the handler found, or NoRoute
RouterLookup(rts, method, path) ==
    LET key == TrimTrailingSlash(path) IN
    IF method \in DOMAIN rts /\ key \in DOMAIN rts[method]
    THEN rts[method][key] ELSE NoRoute

\* c.Param(key): the zero value "" for a missing key
Param(params, key) == IF key \in DOMAIN params THEN params[key] ELSE <<>>

NoRequest == [method |-> "", path |-> <<>>, status |-> "none", params |-> NoParams]

\* the chain a cursor runs over: Router.middleware (chain 0) or a group's
ChainOf(mws, gs, chain) == IF chain = 0 THEN mws ELSE gs[chain].middleware

Event(ev, who, chain, pos) == [ev |-> ev, who |-> who, chain |-> chain, pos |-> pos]

\* `next` taking the interceptors of a chain from its end
RECURSIVE CallNextReversed(_, _, _, _)
CallNextReversed(mws, gs, st, e) ==
    LET c == st.cursors[e]
        chain == ChainOf(mws, gs, c.chain)
    IN
    IF c.index < Len(chain) THEN
        LET mw == chain[Len(chain) - c.index] IN
        [cursors |-> [st.cursors EXCEPT ![e].index = c.index + 1],
         stack   |-> Append(st.stack, [exec |-> e, mw |-> mw, pos |-> c.index,
                                       called |-> FALSE]),
         trace   |-> Append(st.trace, Event("before", mw, c.chain, c.index))]
    ELSE IF c.handler.group = 0 THEN
        [st EXCEPT !.trace = Append(@, Event("handler", c.handler.fn, c.chain, c.index))]
    ELSE
        CallNextReversed(mws, gs,
                 [st EXCEPT !.cursors = Append(@, [chain |-> c.handler.group, index |-> 0,
                                                   handler |-> Plain(c.handler.fn)])],
                 Len(st.cursors) + 1)

\* the closure `next` of execution e, called in the state st = [cursors, stack,
\* trace]: enters the interceptor under the cursor and advances the cursor, or
\* calls the handler once the chain is used up; a wrappedHandler starts the
\* group's own execution (executeGroupMiddleware) and calls its `next`
RECURSIVE CallNext(_, _, _, _)
CallNext(mws, gs, st, e) ==
    LET c == st.cursors[e]
        chain == ChainOf(mws, gs, c.chain)
    IN
    IF c.index < Len(chain) THEN
        LET mw == chain[c.index + 1] IN
        [cursors |-> [st.cursors EXCEPT ![e].index = c.index + 1],
         stack   |-> Append(st.stack, [exec |-> e, mw |-> mw, pos |-> c.index,
                                       called |-> FALSE]),
         trace   |-> Append(st.trace, Event("before", mw, c.chain, c.index))]
    ELSE IF c.handler.group = 0 THEN
        [st EXCEPT !.trace = Append(@, Event("handler", c.handler.fn, c.chain, c.index))]
    ELSE
        CallNext(mws, gs,
                 [st EXCEPT !.cursors = Append(@, [chain |-> c.handler.group, index |-> 0,
                                                   handler |-> Plain(c.handler.fn)])],
                 Len(st.cursors) + 1)

\* the request is over when no interceptor call is left on the stack
StatusAfter(stk) == IF stk = <<>> THEN "done" ELSE "running"

\* what a registration call leaves of the last request: nothing (the history
\* variables describe the last request served by the current configuration)
ForgetRequest ==
    /\ request' = NoRequest
    /\ cursors' = <<>>
    /\ stack' = <<>>
    /\ trace' = <<>>

Idle == request.status # "running"

\* rt.Use(mw)
RouterUse(mw) ==
    /\ Idle
    /\ middleware' = Append(middleware, mw)
    /\ calls' = calls + 1
    /\ ForgetRequest
    /\ UNCHANGED <<routes, groups, grpRegs, rtRegs>>
    /\ UNCHANGED besideRouter

\* rt.Group(prefix)
RouterGroup(prefix) ==
    /\ Idle
    /\ groups' = Append(groups, [prefix |-> prefix, middleware |-> <<>>])
    /\ grpRegs' = Append(grpRegs, [parent |-> 0, prefix |-> prefix,
                                   inherited |-> 0, used |-> <<>>])
    /\ calls' = calls + 1
    /\ ForgetRequest
    /\ UNCHANGED <<routes, middleware, rtRegs>>
    /\ UNCHANGED besideRouter

\* a Group that keeps only its own prefix
GroupGroupOwnPrefix(g, prefix) ==
    /\ Idle
    /\ g \in DOMAIN groups
    /\ groups' = Append(groups, [prefix |-> prefix,
                                 middleware |-> groups[g].middleware])
    /\ grpRegs' = Append(grpRegs, [parent |-> g, prefix |-> prefix,
                                   inherited |-> Len(groups[g].middleware),
                                   used |-> <<>>])
    /\ calls' = calls + 1
    /\ ForgetRequest
    /\ UNCHANGED <<routes, middleware, rtRegs>>
    /\ UNCHANGED besideRouter

\* groups[g].Group(prefix): the child gets the joined prefix and its own copy
\* of the parent's chain, append([]MiddlewareFunc{}, rg.middleware...)
GroupGroup(g, prefix) ==
    /\ Idle
    /\ g \in DOMAIN groups
    /\ groups' = Append(groups, [prefix |-> groups[g].prefix \o prefix,
                                 middleware |-> groups[g].middleware])
    /\ grpRegs' = Append(grpRegs, [parent |-> g, prefix |-> prefix,
                                   inherited |-> Len(groups[g].middleware),
                                   used |-> <<>>])
    /\ calls' = calls + 1
    /\ ForgetRequest
    /\ UNCHANGED <<routes, middleware, rtRegs>>
    /\ UNCHANGED besideRouter

\* a Use that puts the interceptor in front of the group's chain
GroupUsePrepend(g, mw) ==
    /\ Idle
    /\ g \in DOMAIN groups
    /\ groups' = [groups EXCEPT ![g].middleware = <<mw>> \o @]
    /\ grpRegs' = [grpRegs EXCEPT ![g].used = Append(@, mw)]
    /\ calls' = calls + 1
    /\ ForgetRequest
    /\ UNCHANGED <<routes, middleware, rtRegs>>
    /\ UNCHANGED besideRouter

\* a Use on a group whose children share its chain instead of owning a copy
GroupUseShared(g, mw) ==
    /\ Idle
    /\ g \in DOMAIN groups
    /\ groups' = [h \in DOMAIN groups |->
                    IF h = g \/ grpRegs[h].parent = g
                    THEN [groups[h] EXCEPT !.middleware = Append(@, mw)]
                    ELSE groups[h]]
    /\ grpRegs' = [grpRegs EXCEPT ![g].used = Append(@, mw)]
    /\ calls' = calls + 1
    /\ ForgetRequest
    /\ UNCHANGED <<routes, middleware, rtRegs>>
    /\ UNCHANGED besideRouter

\* groups[g].Use(mw)
GroupUse(g, mw) ==
    /\ Idle
    /\ g \in DOMAIN groups
    /\ groups' = [groups EXCEPT ![g].middleware = Append(@, mw)]
    /\ grpRegs' = [grpRegs EXCEPT ![g].used = Append(@, mw)]
    /\ calls' = calls + 1
    /\ ForgetRequest
    /\ UNCHANGED <<routes, middleware, rtRegs>>
    /\ UNCHANGED besideRouter

\* rt.GET(path, handler), rt.POST(path, handler), ...: handler is a function
\* not registered before
RouterRoute(method, path) ==
    /\ Idle
    /\ LET handler == Plain(Len(rtRegs) + 1) IN
       /\ routes' = RouterAddRoute(routes, method, path, handler)
       /\ rtRegs' = Append(rtRegs, [method |-> method, path |-> path,
                                    handler |-> handler, local |-> path,
                                    chain |-> <<>>])
    /\ calls' = calls + 1
    /\ ForgetRequest
    /\ UNCHANGED <<middleware, groups, grpRegs>>
    /\ UNCHANGED besideRouter

\* groups[g].GET(path, handler), ...: RouterGroup.addRoute
GroupRoute(g, method, path) ==
    /\ Idle
    /\ g \in DOMAIN groups
    /\ LET fullPath == groups[g].prefix \o path
           wrappedHandler == Wrapped(Len(rtRegs) + 1, g)
       IN
       /\ routes' = RouterAddRoute(routes, method, fullPath, wrappedHandler)
       /\ rtRegs' = Append(rtRegs, [method |-> method, path |-> fullPath,
                                    handler |-> wrappedHandler, local |-> path,
                                    chain |-> groups[g].middleware])
    /\ calls' = calls + 1
    /\ ForgetRequest
    /\ UNCHANGED <<middleware, groups, grpRegs>>
    /\ UNCHANGED besideRouter

\* rt.ServeHTTP(w, req) up to the point where control is inside the first
\* interceptor (or, without interceptors, to its end)
ServeHTTP(method, path) ==
    /\ Idle
    /\ LET handler == RouterLookup(routes, method, path) IN
       IF handler # NoRoute THEN
           LET st == CallNext(middleware, groups,
                              [cursors |-> <<[chain |-> 0, index |-> 0,
                                              handler |-> handler]>>,
                               stack |-> <<>>, trace |-> <<>>], 1)
           IN /\ cursors' = st.cursors
              /\ stack' = st.stack
              /\ trace' = st.trace
              /\ request' = [method |-> method, path |-> path,
                             status |-> StatusAfter(st.stack), params |-> NoParams]
       ELSE
           /\ request' = [method |-> method, path |-> path,
                          status |-> "notfound", params |-> NoParams]
           /\ cursors' = <<>>
           /\ stack' = <<>>
           /\ trace' = <<>>
    /\ UNCHANGED <<routes, middleware, groups, grpRegs, rtRegs, calls>>
    /\ UNCHANGED besideRouter

\* the interceptor on top of the stack calls next()
MwProceed ==
    /\ request.status = "running"
    /\ ~stack[Len(stack)].called
    /\ LET top == Len(stack)
           st == CallNext(middleware, groups,
                          [cursors |-> cursors,
                           stack |-> [stack EXCEPT ![top].called = TRUE],
                           trace |-> trace], stack[top].exec)
       IN /\ cursors' = st.cursors
          /\ stack' = st.stack
          /\ trace' = st.trace
    /\ UNCHANGED <<routes, middleware, groups, grpRegs, rtRegs, calls, request>>
    /\ UNCHANGED besideRouter

\* an engine that goes on with the chain when an interceptor returns
\* without having called next()
MwReturnContinues ==
    /\ request.status = "running"
    /\ LET top == stack[Len(stack)]
           left == [cursors |-> cursors,
                    stack |-> SubSeq(stack, 1, Len(stack) - 1),
                    trace |-> Append(trace, Event("after", top.mw,
                                                  cursors[top.exec].chain, top.pos))]
           st == IF top.called THEN left
                 ELSE CallNext(middleware, groups, left, top.exec)
       IN /\ cursors' = st.cursors
          /\ stack' = st.stack
          /\ trace' = st.trace
          /\ request' = [request EXCEPT !.status = StatusAfter(st.stack)]
    /\ UNCHANGED <<routes, middleware, groups, grpRegs, rtRegs, calls>>
    /\ UNCHANGED besideRouter

\* the interceptor on top of the stack runs the rest of its body and returns;
\* it may do so without having called next() (BasicAuth, RateLimiter, CORS)
MwReturn ==
    /\ request.status = "running"
    /\ LET top == stack[Len(stack)] IN
       trace' = Append(trace, Event("after", top.mw, cursors[top.exec].chain, top.pos))
    /\ stack' = SubSeq(stack, 1, Len(stack) - 1)
    /\ request' = [request EXCEPT !.status = StatusAfter(stack')]
    /\ UNCHANGED <<routes, middleware, groups, grpRegs, rtRegs, calls, cursors>>
    /\ UNCHANGED besideRouter

----------------------------------------------------------------------------
(* An interceptor that calls next() more than once                         *)

\* how often next() was called again in the request
Agains == Len(SelectSeq(trace, LAMBDA e : e.ev = "again"))

\* a next() that starts again behind the interceptor that calls it
MwProceedAgainRewinding ==
    /\ request.status = "running"
    /\ stack[Len(stack)].called
    /\ Agains < MaxAgain
    /\ LET top == stack[Len(stack)]
           st == CallNext(middleware, groups,
                          [cursors |-> [cursors EXCEPT ![top.exec].index = top.pos + 1],
                           stack |-> stack,
                           trace |-> Append(trace, Event("again", top.mw,
                                                         cursors[top.exec].chain, top.pos))],
                          top.exec)
       IN /\ cursors' = st.cursors
          /\ stack' = st.stack
          /\ trace' = st.trace
    /\ UNCHANGED <<routes, middleware, groups, grpRegs, rtRegs, calls, request>>
    /\ UNCHANGED besideRouter

\* the interceptor on top of the stack, whose next() has returned, calls
\* next() once more
MwProceedAgain ==
    /\ request.status = "running"
    /\ stack[Len(stack)].called
    /\ Agains < MaxAgain
    /\ LET top == stack[Len(stack)]
           st == CallNext(middleware, groups,
                          [cursors |-> cursors,
                           stack |-> stack,
                           trace |-> Append(trace, Event("again", top.mw,
                                                         cursors[top.exec].chain, top.pos))],
                          top.exec)
       IN /\ cursors' = st.cursors
          /\ stack' = st.stack
          /\ trace' = st.trace
    /\ UNCHANGED <<routes, middleware, groups, grpRegs, rtRegs, calls, request>>
    /\ UNCHANGED besideRouter

----------------------------------------------------------------------------
(* Panics in the chain (the engine has no recover; Recovery has one)       *)

RecoveryMw == "Recovery"

Unchained == UNCHANGED <<routes, middleware, groups, grpRegs, rtRegs, calls>>

\* the interceptor on top of the stack panics in its own code
MwPanics ==
    /\ request.status = "running"
    /\ LET top == stack[Len(stack)] IN
       /\ top.mw # RecoveryMw
       /\ trace' = Append(trace, Event("panic", top.mw, cursors[top.exec].chain, top.pos))
    /\ request' = [request EXCEPT !.status = "panicking"]
    /\ UNCHANGED <<cursors, stack>>
    /\ Unchained
    /\ UNCHANGED besideRouter

\* the interceptor on top of the stack calls next(), next calls the handler,
\* and the handler panics
HandlerPanics ==
    /\ request.status = "running"
    /\ ~stack[Len(stack)].called
    /\ LET top == Len(stack)
           st == CallNext(middleware, groups,
                          [cursors |-> cursors,
                           stack |-> [stack EXCEPT ![top].called = TRUE],
                           trace |-> trace], stack[top].exec)
           ran == st.trace[Len(st.trace)]
       IN /\ Len(st.stack) = Len(stack)
          /\ cursors' = st.cursors
          /\ stack' = st.stack
          /\ trace' = Append(st.trace, Event("panic", ran.who, ran.chain, ran.pos))
    /\ request' = [request EXCEPT !.status = "panicking"]
    /\ Unchained
    /\ UNCHANGED besideRouter

\* rt.ServeHTTP for a route without interceptors whose handler panics
ServeHTTPPanics(method, path) ==
    /\ Idle
    /\ LET handler == RouterLookup(routes, method, path)
           st == CallNext(middleware, groups,
                          [cursors |-> <<[chain |-> 0, index |-> 0,
                                          handler |-> handler]>>,
                           stack |-> <<>>, trace |-> <<>>], 1)
           ran == st.trace[Len(st.trace)]
       IN /\ handler # NoRoute
          /\ st.stack = <<>>
          /\ cursors' = st.cursors
          /\ stack' = st.stack
          /\ trace' = Append(st.trace, Event("panic", ran.who, ran.chain, ran.pos))
          /\ request' = [method |-> method, path |-> path,
                         status |-> "panicked", params |-> NoParams]
    /\ Unchained
    /\ UNCHANGED besideRouter

\* an engine that catches the panic where an interceptor called next()
UnwindCatching ==
    /\ request.status = "panicking"
    /\ request' = [request EXCEPT !.status = "running"]
    /\ UNCHANGED <<cursors, stack, trace>>
    /\ Unchained
    /\ UNCHANGED besideRouter

\* the panic leaves the interceptor call on top of the stack: the call is
\* abandoned, unless it is Recovery's, whose deferred function recovers and
\* lets Recovery return
Unwind ==
    /\ request.status = "panicking"
    /\ LET top == stack[Len(stack)]
           rest == SubSeq(stack, 1, Len(stack) - 1)
       IN /\ stack' = rest
          /\ IF top.mw = RecoveryMw
             THEN /\ trace' = Append(trace, Event("recovered", top.mw,
                                                  cursors[top.exec].chain, top.pos))
                  /\ request' = [request EXCEPT !.status = StatusAfter(rest)]
             ELSE /\ trace' = trace
                  /\ request' = [request EXCEPT !.status =
                                    IF rest = <<>> THEN "panicked" ELSE "panicking"]
    /\ UNCHANGED cursors
    /\ Unchained
    /\ UNCHANGED besideRouter

----------------------------------------------------------------------------
(* Requests served at once (net/http runs ServeHTTP on a goroutine each)   *)

\* the interceptors and handlers keep what they saw in the Context:
\* c.Set(key, value)
ContextSet(store, key, value) == MapPut(store, key, value)

\* one ServeHTTP call in flight: its Context (store), the `index` of each of
\* its chain executions, its interceptor calls that have not returned, and
\* what ran for it
Flight(method, path, status, store, st) ==
    [method |-> method, path |-> path, status |-> status, store |-> store,
     cursors |-> st.cursors, stack |-> st.stack, trace |-> st.trace]

\* the store after next() went from the stack before to the state st: an
\* interceptor that was entered has stored the request's path under its name
StoreAfter(store, before, st, path) ==
    IF Len(st.stack) > Len(before)
    THEN ContextSet(store, st.stack[Len(st.stack)].mw, path)
    ELSE store

NoRegistering == UNCHANGED <<routerVars, besideFlights>>

\* rt.ServeHTTP(w, req) starts on a new goroutine
FlightServe(method, path) ==
    /\ Len(flights) < MaxFlights
    /\ LET handler == RouterLookup(routes, method, path) IN
       IF handler # NoRoute THEN
           LET st == CallNext(middleware, groups,
                              [cursors |-> <<[chain |-> 0, index |-> 0,
                                              handler |-> handler]>>,
                               stack |-> <<>>, trace |-> <<>>], 1)
           IN flights' = Append(flights,
                                Flight(method, path, StatusAfter(st.stack),
                                       StoreAfter(<<>>, <<>>, st, path), st))
       ELSE
           flights' = Append(flights,
                             Flight(method, path, "notfound", <<>>,
                                    [cursors |-> <<>>, stack |-> <<>>, trace |-> <<>>]))
    /\ NoRegistering

\* the largest `index` any request in flight has for its execution e
SharedIndex(e) ==
    LET at == { flights[g].cursors[e].index :
                  g \in { h \in DOMAIN flights : e \in DOMAIN flights[h].cursors } }
    IN CHOOSE n \in at : \A m \in at : n >= m

\* a next() whose index is one variable for all the requests in flight
FlightProceedSharedIndex(f) ==
    /\ flights[f].status = "running"
    /\ ~flights[f].stack[Len(flights[f].stack)].called
    /\ LET top == Len(flights[f].stack)
           e == flights[f].stack[top].exec
           st == CallNext(middleware, groups,
                          [cursors |-> [flights[f].cursors EXCEPT
                                           ![e].index = SharedIndex(e)],
                           stack |-> [flights[f].stack EXCEPT ![top].called = TRUE],
                           trace |-> flights[f].trace], e)
       IN flights' = [flights EXCEPT ![f].cursors = st.cursors,
                                     ![f].stack = st.stack,
                                     ![f].trace = st.trace,
                                     ![f].store = StoreAfter(@, flights[f].stack, st,
                                                             flights[f].path)]
    /\ NoRegistering

\* the interceptor on top of a request's stack calls next()
FlightProceed(f) ==
    /\ flights[f].status = "running"
    /\ ~flights[f].stack[Len(flights[f].stack)].called
    /\ LET top == Len(flights[f].stack)
           st == CallNext(middleware, groups,
                          [cursors |-> flights[f].cursors,
                           stack |-> [flights[f].stack EXCEPT ![top].called = TRUE],
                           trace |-> flights[f].trace], flights[f].stack[top].exec)
       IN flights' = [flights EXCEPT ![f].cursors = st.cursors,
                                     ![f].stack = st.stack,
                                     ![f].trace = st.trace,
                                     ![f].store = StoreAfter(@, flights[f].stack, st,
                                                             flights[f].path)]
    /\ NoRegistering

\* the interceptor on top of a request's stack returns after its next()
FlightReturn(f) ==
    /\ flights[f].status = "running"
    /\ LET top == flights[f].stack[Len(flights[f].stack)]
           rest == SubSeq(flights[f].stack, 1, Len(flights[f].stack) - 1)
       IN /\ top.called
          /\ flights' = [flights EXCEPT
                ![f].trace = Append(@, Event("after", top.mw,
                                             flights[f].cursors[top.exec].chain, top.pos)),
                ![f].stack = rest,
                ![f].status = StatusAfter(rest)]
    /\ NoRegistering

----------------------------------------------------------------------------
(* cleanPath (response.go)                                                 *)

cleanPath(path) ==
    IF path = <<>> THEN Slash
    ELSE LET rooted == IF ~HasPrefix(path, Slash) THEN Slash \o path ELSE path
         IN IF Len(rooted) > 1 /\ HasSuffix(rooted, Slash)
            THEN TrimSuffix(rooted, Slash)
            ELSE rooted

\* the texts given to cleanPath: every text of slashes and letters up to
\* the length bound
PathChars == {"/", "a"}

CleanInputs == UNION { [1..n -> PathChars] : n \in 0..MaxPathLen }

NoClean == [input |-> <<>>, output |-> <<>>]

\* cleanPath(path)
CleanPath ==
    /\ \E path \in CleanInputs :
         cleaned' = [input |-> path, output |-> cleanPath(path)]
    /\ UNCHANGED besideClean

\* cleanPath applied to what the last call returned
CleanAgain ==
    /\ cleaned # NoClean
    /\ cleaned' = [input |-> cleaned.output, output |-> cleanPath(cleaned.output)]
    /\ UNCHANGED besideClean

----------------------------------------------------------------------------
(* Graceful shutdown (shutdown.go)                                         *)

Signals == {"SIGTERM", "SIGINT"}

DefaultShutdownConfig ==
    [Timeout |-> 30, ShutdownSignals |-> {"SIGTERM", "SIGINT"},
     OnShutdown |-> globalShutdownCallbacks]

\* the zero ShutdownConfig
ZeroConfig == [Timeout |-> 0, ShutdownSignals |-> {}, OnShutdown |-> <<>>]

\* the callback a caller puts into its own ShutdownConfig.OnShutdown
OwnCallback == 0

\* the ShutdownConfig values a caller passes: one that sets only Timeout (the
\* other fields are nil), and one that sets every field
CallerConfigs ==
    { [Timeout |-> 10, ShutdownSignals |-> {}, OnShutdown |-> <<>>],
      [Timeout |-> 10, ShutdownSignals |-> {"SIGTERM"}, OnShutdown |-> <<OwnCallback>>] }

NotServing == [pc |-> "none", cfg |-> ZeroConfig, given |-> FALSE, i |-> 0]

HookEvent(ev, fn) == [ev |-> ev, fn |-> fn]

Registered == SelectSeq(hookLog, LAMBDA e : e.ev = "OnShutdown")

\* rt.OnShutdown(fn) with a function not registered before
OnShutdown ==
    /\ Len(Registered) < MaxCallbacks
    /\ LET fn == Len(Registered) + 1 IN
       /\ globalShutdownCallbacks' = Append(globalShutdownCallbacks, fn)
       /\ hookLog' = Append(hookLog, HookEvent("OnShutdown", fn))
    /\ UNCHANGED <<graceful, server>>
    /\ UNCHANGED besideShutdown

\* rt.ListenAndServeWithGracefulShutdown(addr, config...) up to `<-quit`,
\* config being the sequence of the variadic arguments: cfg is chosen, the
\* goroutine that runs rt.Listen is started
ListenAndServeWithGracefulShutdown(config) ==
    /\ graceful.pc = "none"
    /\ graceful' = [pc |-> "waiting",
                    cfg |-> IF Len(config) > 0 THEN config[1] ELSE DefaultShutdownConfig,
                    given |-> Len(config) > 0,
                    i |-> 0]
    /\ server' = "starting"
    /\ hookLog' = Append(hookLog, HookEvent("serve", 0))
    /\ UNCHANGED globalShutdownCallbacks
    /\ UNCHANGED besideShutdown

\* the goroutine: rt.Listen sets rt.server and the server listens
ListenStarts ==
    /\ server = "starting"
    /\ server' = "listening"
    /\ UNCHANGED <<globalShutdownCallbacks, graceful, hookLog>>
    /\ UNCHANGED besideShutdown

\* the goroutine: ListenAndServe returns an error, which is logged
ListenFails ==
    /\ server = "starting"
    /\ server' = "failed"
    /\ UNCHANGED <<globalShutdownCallbacks, graceful, hookLog>>
    /\ UNCHANGED besideShutdown

\* a signal the process was told to relay arrives on quit; signal.Notify
\* without signals relays every signal
Signal(sig) ==
    /\ graceful.pc = "waiting"
    /\ graceful.cfg.ShutdownSignals = {} \/ sig \in graceful.cfg.ShutdownSignals
    /\ graceful' = [graceful EXCEPT !.pc = "hooks"]
    /\ hookLog' = Append(hookLog, HookEvent("signal", 0))
    /\ UNCHANGED <<globalShutdownCallbacks, server>>
    /\ UNCHANGED besideShutdown

\* one turn of `for _, fn := range cfg.OnShutdown { fn() }`
RunCallback ==
    /\ graceful.pc = "hooks"
    /\ graceful.i < Len(graceful.cfg.OnShutdown)
    /\ hookLog' = Append(hookLog, HookEvent("run", graceful.cfg.OnShutdown[graceful.i + 1]))
    /\ graceful' = [graceful EXCEPT !.i = @ + 1]
    /\ UNCHANGED <<globalShutdownCallbacks, server>>
    /\ UNCHANGED besideShutdown

\* return rt.Shutdown(ctx): closes rt.server when rt.Listen has set it
ServerShutdown ==
    /\ graceful.pc = "hooks"
    /\ graceful.i = Len(graceful.cfg.OnShutdown)
    /\ server' = IF server = "listening" THEN "closed" ELSE server
    /\ graceful' = [graceful EXCEPT !.pc = "returned"]
    /\ hookLog' = Append(hookLog, HookEvent("shutdown", 0))
    /\ UNCHANGED globalShutdownCallbacks
    /\ UNCHANGED besideShutdown

----------------------------------------------------------------------------
(* RateLimiter (middleware)                                                *)

RemoteAddrs == {"p", "q"}

NoLimiter == [requests |-> <<>>, limit |-> 0, window |-> 0]

\* NewRateLimiter(limit, window)
NewRateLimiter(limit, window) ==
    /\ rl = NoLimiter
    /\ rl' = [requests |-> <<>>, limit |-> limit, window |-> window]
    /\ UNCHANGED <<clock, goroutines, rlLog>>
    /\ UNCHANGED besideLimiter

\* time passes
Tick ==
    /\ rl # NoLimiter
    /\ clock < MaxClock
    /\ clock' = clock + 1
    /\ UNCHANGED <<rl, goroutines, rlLog>>
    /\ UNCHANGED besideLimiter

Active(r) == goroutines[r].pc # "done"

\* a request enters the interceptor on its own goroutine:
\* ip := c.Request.RemoteAddr; now := time.Now()
Arrive(ip) ==
    /\ rl # NoLimiter
    /\ Len(goroutines) < MaxRequests
    /\ goroutines' =
          Append([r \in DOMAIN goroutines |->
                    IF Active(r) THEN [goroutines[r] EXCEPT !.alone = FALSE]
                    ELSE goroutines[r]],
                 [pc |-> "read", ip |-> ip, now |-> clock, requests |-> <<>>,
                  exists |-> FALSE,
                  alone |-> \A r \in DOMAIN goroutines : ~Active(r)])
    /\ UNCHANGED <<rl, clock, rlLog>>
    /\ UNCHANGED besideLimiter

\* requests, exists := rl.requests[ip]
ReadRequests(r) ==
    /\ goroutines[r].pc = "read"
    /\ LET ip == goroutines[r].ip IN
       goroutines' = [goroutines EXCEPT
                        ![r].exists = ip \in DOMAIN rl.requests,
                        ![r].requests = IF ip \in DOMAIN rl.requests
                                        THEN rl.requests[ip] ELSE <<>>,
                        ![r].pc = "filter"]
    /\ UNCHANGED <<rl, clock, rlLog>>
    /\ UNCHANGED besideLimiter

\* the loop that keeps the times inside the window, and
\* rl.requests[ip] = validRequests
FilterRequests(r) ==
    /\ goroutines[r].pc = "filter"
    /\ LET g == goroutines[r]
           validRequests == SelectSeq(g.requests, LAMBDA t : g.now - t < rl.window)
       IN rl' = IF g.exists
                THEN [rl EXCEPT !.requests = MapPut(@, g.ip, validRequests)]
                ELSE rl
    /\ goroutines' = [goroutines EXCEPT ![r].pc = "check"]
    /\ UNCHANGED <<clock, rlLog>>
    /\ UNCHANGED besideLimiter

\* len(rl.requests[ip]) of a map that may have no entry for ip
Count(requests, ip) == IF ip \in DOMAIN requests THEN Len(requests[ip]) ELSE 0

\* if len(rl.requests[ip]) >= rl.limit { c.SendError(429, ...); return }
CheckLimit(r) ==
    /\ goroutines[r].pc = "check"
    /\ LET g == goroutines[r] IN
       IF Count(rl.requests, g.ip) >= rl.limit
       THEN /\ goroutines' = [goroutines EXCEPT ![r].pc = "done"]
            /\ rlLog' = Append(rlLog, [ip |-> g.ip, at |-> g.now, status |-> 429])
       ELSE /\ goroutines' = [goroutines EXCEPT ![r].pc = "append"]
            /\ UNCHANGED rlLog
    /\ UNCHANGED <<rl, clock>>
    /\ UNCHANGED besideLimiter

\* rl.requests[ip] = append(rl.requests[ip], now); next()
AppendAndProceed(r) ==
    /\ goroutines[r].pc = "append"
    /\ LET g == goroutines[r]
           sofar == IF g.ip \in DOMAIN rl.requests THEN rl.requests[g.ip] ELSE <<>>
       IN /\ rl' = [rl EXCEPT !.requests = MapPut(@, g.ip, Append(sofar, g.now))]
          /\ rlLog' = Append(rlLog, [ip |-> g.ip, at |-> g.now, status |-> 200])
    /\ goroutines' = [goroutines EXCEPT ![r].pc = "done"]
    /\ UNCHANGED clock
    /\ UNCHANGED besideLimiter

----------------------------------------------------------------------------
(* Context.setParam and url.QueryUnescape (context.go)                     *)

HexDigits == {"0", "1", "2", "3", "4", "5", "6", "7", "8", "9",
              "a", "b", "c", "d", "e", "f", "A", "B", "C", "D", "E", "F"}

\* ishex(c)
ishex(c) == c \in HexDigits

\* unhex(c)
unhex(c) ==
    CASE c = "0" -> 0 [] c = "1" -> 1 [] c = "2" -> 2 [] c = "3" -> 3
      [] c = "4" -> 4 [] c = "5" -> 5 [] c = "6" -> 6 [] c = "7" -> 7
      [] c = "8" -> 8 [] c = "9" -> 9
      [] c \in {"a", "A"} -> 10 [] c \in {"b", "B"} -> 11
      [] c \in {"c", "C"} -> 12 [] c \in {"d", "D"} -> 13
      [] c \in {"e", "E"} -> 14 [] c \in {"f", "F"} -> 15

\* the character with a byte value; the bytes that the values used here
\* decode to have their own character, the others are written as the number
ByteChar(b) ==
    CASE b = 65 -> "A" [] b = 68 -> "D" [] b = 17 -> "\\x11" [] b = 20 -> "\\x14"
      [] OTHER -> ToString(b)

\* the first pass of unescape: TRUE when a '%' is not followed by two hex
\* digits
RECURSIVE BadEscape(_, _)
BadEscape(s, i) ==
    IF i > Len(s) THEN FALSE
    ELSE IF s[i] = "%"
         THEN IF i + 2 > Len(s) \/ ~ishex(s[i + 1]) \/ ~ishex(s[i + 2]) THEN TRUE
              ELSE BadEscape(s, i + 3)
         ELSE BadEscape(s, i + 1)

\* the second pass of unescape in the mode of a query component
RECURSIVE Unescaped(_, _)
Unescaped(s, i) ==
    IF i > Len(s) THEN <<>>
    ELSE IF s[i] = "%"
         THEN <<ByteChar(unhex(s[i + 1]) * 16 + unhex(s[i + 2]))>> \o Unescaped(s, i + 3)
    ELSE IF s[i] = "+" THEN <<" ">> \o Unescaped(s, i + 1)
    ELSE <<s[i]>> \o Unescaped(s, i + 1)

\* url.QueryUnescape(s): the decoded text and whether an error is returned
QueryUnescape(s) ==
    IF BadEscape(s, 1) THEN [text |-> <<>>, err |-> TRUE]
    ELSE [text |-> Unescaped(s, 1), err |-> FALSE]

\* &Context{params: make(map[string]string)}, no setParam call yet
NewContext == [params |-> NoParams, key |-> <<>>, value |-> <<>>, called |-> FALSE]

\* the characters of the values given to setParam and the values
ValueChars == {"%", "4", "1", "g", "+"}

ParamValues == UNION { [1..n -> ValueChars] : n \in 0..MaxValueLen }

ParamKeys == { <<"i", "d">> }

\* c.setParam(key, value)
setParam(key, value) ==
    LET decoded == QueryUnescape(value).text IN
    /\ ctx' = [params |-> MapPut(ctx.params, key, decoded),
               key |-> key, value |-> value, called |-> TRUE]
    /\ UNCHANGED besideContext

\* a setParam call with a key and a value of the pools
SetParam == \E key \in ParamKeys, value \in ParamValues : setParam(key, value)

----------------------------------------------------------------------------
(* The program at start                                                    *)

\* New() and NewRouteNode(): an empty Router and the root of an empty tree;
\* no shutdown callback, no rate limiter
Init ==
    /\ root = (<<>> :> NewRouteNode)
    /\ trieRegs = <<>>
    /\ found = NoLookup
    /\ routes = <<>>
    /\ middleware = <<>>
    /\ groups = <<>>
    /\ grpRegs = <<>>
    /\ rtRegs = <<>>
    /\ calls = 0
    /\ request = NoRequest
    /\ cursors = <<>>
    /\ stack = <<>>
    /\ trace = <<>>
    /\ cleaned = NoClean
    /\ globalShutdownCallbacks = <<>>
    /\ graceful = NotServing
    /\ server = "off"
    /\ hookLog = <<>>
    /\ rl = NoLimiter
    /\ clock = 0
    /\ goroutines = <<>>
    /\ rlLog = <<>>
    /\ ctx = NewContext
    /\ flights = <<>>

----------------------------------------------------------------------------
(* Specifications                                                          *)

\* the lookup tree alone
NextTrie ==
    \/ TrieAddRoute
    \/ TrieFindRoute

SpecTrie == Init /\ [][NextTrie]_vars

\* the Router's table: routes registered on the Router and on one group
RouterPatterns ==
    { Slash, PathOf(<<sA>>), PathOf(<<sA>>) \o Slash, PathOf(<<sA>>) \o Slash \o Slash,
      PathOf(<<sA, pX>>), PathOf(<<sA, wW>>) }

GroupPrefixes == { PathOf(<<sA>>) }

GroupPatterns == { PathOf(<<sB>>), PathOf(<<pX>>) }

RouterPaths ==
    { Slash, PathOf(<<sA>>), PathOf(<<sA>>) \o Slash, PathOf(<<sA>>) \o Slash \o Slash,
      PathOf(<<sA, sB>>), PathOf(<<sA, sB>>) \o Slash, PathOf(<<sA, sB, sC>>) }

NextRouter ==
    \/ \E method \in Methods, path \in RouterPatterns :
          calls < MaxRouterCalls /\ RouterRoute(method, path)
    \/ \E prefix \in GroupPrefixes :
          calls < MaxRouterCalls /\ groups = <<>> /\ RouterGroup(prefix)
    \/ \E g \in DOMAIN groups, method \in Methods, path \in GroupPatterns :
          calls < MaxRouterCalls /\ GroupRoute(g, method, path)
    \/ calls < MaxRouterCalls /\ middleware = <<>> /\ RouterUse("L")
    \/ \E method \in Methods, path \in RouterPaths : ServeHTTP(method, path)
    \/ MwProceed
    \/ MwReturn

SpecRouter == Init /\ [][NextRouter]_vars

\* the chains: interceptors on the Router and on groups around one route
RootInterceptors  == {"L", "R"}
GroupInterceptors == {"G", "B"}
ChainPrefix == PathOf(<< <<"g">> >>)
ChainPath   == PathOf(<< <<"h">> >>)
ChainPaths  == { ChainPath, ChainPrefix \o ChainPath, ChainPrefix \o ChainPrefix \o ChainPath }

NextChain ==
    \/ \E mw \in RootInterceptors : calls < MaxChainCalls /\ RouterUse(mw)
    \/ calls < MaxChainCalls /\ RouterGroup(ChainPrefix)
    \/ \E g \in DOMAIN groups : calls < MaxChainCalls /\ GroupGroup(g, ChainPrefix)
    \/ \E g \in DOMAIN groups, mw \in GroupInterceptors :
          calls < MaxChainCalls /\ GroupUse(g, mw)
    \/ calls < MaxChainCalls /\ RouterRoute("GET", ChainPath)
    \/ \E g \in DOMAIN groups : calls < MaxChainCalls /\ GroupRoute(g, "GET", ChainPath)
    \/ \E path \in ChainPaths : ServeHTTP("GET", path)
    \/ MwProceed
    \/ MwReturn

SpecChain == Init /\ [][NextChain]_vars

\* the tree or the Router's table, one of them in a run: the Router does not
\* use the tree, so a run that works on both is a run on each
TreeOnly  == calls = 0 /\ request = NoRequest
TableOnly == trieRegs = <<>> /\ found = NoLookup

NextStores ==
    \/ TreeOnly /\ TrieAddRoute
    \/ TreeOnly /\ TrieFindRoute
    \/ \E method \in Methods, path \in RouterPatterns :
          TableOnly /\ calls < MaxRouterCalls /\ RouterRoute(method, path)
    \/ \E prefix \in GroupPrefixes :
          TableOnly /\ calls < MaxRouterCalls /\ groups = <<>> /\ RouterGroup(prefix)
    \/ \E g \in DOMAIN groups, method \in Methods, path \in GroupPatterns :
          TableOnly /\ calls < MaxRouterCalls /\ GroupRoute(g, method, path)
    \/ TableOnly /\ calls < MaxRouterCalls /\ middleware = <<>> /\ RouterUse("L")
    \/ \E method \in Methods, path \in RouterPaths :
          TableOnly /\ ServeHTTP(method, path)
    \/ TableOnly /\ MwProceed
    \/ TableOnly /\ MwReturn

SpecStores == Init /\ [][NextStores]_vars

\* cleanPath on its own
NextClean ==
    \/ CleanPath
    \/ CleanAgain

SpecClean == Init /\ [][NextClean]_vars

\* start-up and graceful shutdown of one server
NextShutdown ==
    \/ OnShutdown
    \/ ListenAndServeWithGracefulShutdown(<<>>)
    \/ \E config \in CallerConfigs : ListenAndServeWithGracefulShutdown(<<config>>)
    \/ ListenStarts
    \/ ListenFails
    \/ \E sig \in Signals : Signal(sig)
    \/ RunCallback
    \/ ServerShutdown

SpecShutdown == Init /\ [][NextShutdown]_vars

\* the same with the steps of the program itself taken when they can be: the
\* goroutine gets on with rt.Listen, the caller with its callbacks and with
\* rt.Shutdown; whether and when a signal arrives or OnShutdown is called is
\* left open
SpecShutdownFair ==
    /\ Init
    /\ [][NextShutdown]_vars
    /\ WF_vars(ListenStarts \/ ListenFails)
    /\ WF_vars(RunCallback)
    /\ WF_vars(ServerShutdown)

\* one rate limiter and the requests that pass through it, each on its own
\* goroutine, their statements interleaved
NextLimiter ==
    \/ \E limit \in 1..MaxLimit, window \in 1..MaxWindow : NewRateLimiter(limit, window)
    \/ Tick
    \/ \E ip \in RemoteAddrs : Arrive(ip)
    \/ \E r \in DOMAIN goroutines : ReadRequests(r)
    \/ \E r \in DOMAIN goroutines : FilterRequests(r)
    \/ \E r \in DOMAIN goroutines : CheckLimit(r)
    \/ \E r \in DOMAIN goroutines : AppendAndProceed(r)

SpecLimiter == Init /\ [][NextLimiter]_vars

\* the lookup tree with patterns that share parameter and wildcard children
NextNames ==
    \/ NamesAddRoute
    \/ NamesFindRoute

SpecNames == Init /\ [][NextNames]_vars

\* a Context given parameter values
NextContext == SetParam

SpecContext == Init /\ [][NextContext]_vars

\* a Router set up with chains, then serving requests at once
FlightPrefix == PathOf(<< <<"g">> >>)
FlightPath   == PathOf(<< <<"h">> >>)
FlightPaths  == { FlightPath, FlightPrefix \o FlightPath }

FlightRootInterceptors  == {"L"}
FlightGroupInterceptors == {"G"}

NextFlights ==
    \/ \E mw \in FlightRootInterceptors :
          flights = <<>> /\ calls < MaxFlightCalls /\ RouterUse(mw)
    \/ flights = <<>> /\ calls < MaxFlightCalls /\ groups = <<>> /\ RouterGroup(FlightPrefix)
    \/ \E g \in DOMAIN groups, mw \in FlightGroupInterceptors :
          flights = <<>> /\ calls < MaxFlightCalls /\ GroupUse(g, mw)
    \/ flights = <<>> /\ calls < MaxFlightCalls /\ RouterRoute("GET", FlightPath)
    \/ \E g \in DOMAIN groups :
          flights = <<>> /\ calls < MaxFlightCalls /\ GroupRoute(g, "GET", FlightPath)
    \/ \E path \in FlightPaths : FlightServe("GET", path)
    \/ \E f \in DOMAIN flights : FlightProceed(f)
    \/ \E f \in DOMAIN flights : FlightReturn(f)

SpecFlights == Init /\ [][NextFlights]_vars

\* chains with and without Recovery, and code that panics
PanicInterceptors == {"L", RecoveryMw}

Settled == request.status # "panicking"

NextPanic ==
    \/ \E mw \in PanicInterceptors :
          Settled /\ calls < MaxPanicCalls /\ RouterUse(mw)
    \/ Settled /\ calls < MaxPanicCalls /\ groups = <<>> /\ RouterGroup(ChainPrefix)
    \/ \E g \in DOMAIN groups, mw \in PanicInterceptors :
          Settled /\ calls < MaxPanicCalls /\ GroupUse(g, mw)
    \/ Settled /\ calls < MaxPanicCalls /\ RouterRoute("GET", ChainPath)
    \/ \E g \in DOMAIN groups :
          Settled /\ calls < MaxPanicCalls /\ GroupRoute(g, "GET", ChainPath)
    \/ \E path \in ChainPaths : Settled /\ ServeHTTP("GET", path)
    \/ \E path \in ChainPaths : Settled /\ ServeHTTPPanics("GET", path)
    \/ MwProceed
    \/ MwReturn
    \/ MwPanics
    \/ HandlerPanics
    \/ Unwind

SpecPanic == Init /\ [][NextPanic]_vars

\* chains whose interceptors may call next() more than once
NextAgain ==
    \/ \E mw \in RootInterceptors : calls < MaxAgainCalls /\ RouterUse(mw)
    \/ calls < MaxAgainCalls /\ groups = <<>> /\ RouterGroup(ChainPrefix)
    \/ \E g \in DOMAIN groups, mw \in GroupInterceptors :
          calls < MaxAgainCalls /\ GroupUse(g, mw)
    \/ calls < MaxAgainCalls /\ RouterRoute("GET", ChainPath)
    \/ \E g \in DOMAIN groups : calls < MaxAgainCalls /\ GroupRoute(g, "GET", ChainPath)
    \/ \E path \in ChainPaths : ServeHTTP("GET", path)
    \/ MwProceed
    \/ MwProceedAgain
    \/ MwReturn

SpecAgain == Init /\ [][NextAgain]_vars

----------------------------------------------------------------------------
(* Vocabulary of the properties                                            *)

\* the non-empty pieces of a path between slashes
Segs(path) == SelectSeq(Split(path, "/"), LAMBDA seg : seg # <<>>)

IsParamSeg(seg) == HasPrefix(seg, <<":">>)
IsWildSeg(seg)  == HasPrefix(seg, <<"*">>)

\* the raw pattern text contains a parameter or wildcard marker
HasMarker(path) == \E i \in DOMAIN path : path[i] \in {":", "*"}

\* what a pattern asks of a path, segment by segment
RECURSIVE Matches(_, _)
Matches(pat, segs) ==
    IF pat = <<>> THEN segs = <<>>
    ELSE IF segs = <<>> THEN FALSE
    ELSE IF IsWildSeg(pat[1]) THEN TRUE
    ELSE (IsParamSeg(pat[1]) \/ pat[1] = segs[1]) /\ Matches(Tail(pat), Tail(segs))

\* the bindings a pattern asks for on a path it matches
RECURSIVE Bindings(_, _)
Bindings(pat, segs) ==
    IF pat = <<>> \/ segs = <<>> THEN NoParams
    ELSE IF IsWildSeg(pat[1]) THEN (Tail(pat[1]) :> Join(segs, "/"))
    ELSE IF IsParamSeg(pat[1])
         THEN (Tail(pat[1]) :> segs[1]) @@ Bindings(Tail(pat), Tail(segs))
    ELSE Bindings(Tail(pat), Tail(segs))

\* the handler ServeHTTP handed to the chain for the last request
Dispatched == IF request.status \in {"running", "done"} THEN cursors[1].handler ELSE NoRoute

Served == request.status \in {"done", "notfound"}

HandlerRan(fn) == \E k \in DOMAIN trace : trace[k].ev = "handler" /\ trace[k].who = fn

----------------------------------------------------------------------------
(* Properties of the Router's table                                        *)

\* C1: a request that matches a pattern with a ':' or '*' segment registered
\* through Router.GET/POST/... or through a group, with the same method, is
\* not answered with not-found: it is dispatched to the registered handler,
\* and Param gives each parameter the matching part of the path.
C1_DynamicRouteDispatched ==
    \A i \in DOMAIN rtRegs :
        ( /\ Len(rtRegs) = 1
          /\ Served
          /\ HasMarker(rtRegs[i].path)
          /\ request.method = rtRegs[i].method
          /\ Matches(Segs(rtRegs[i].path), Segs(request.path)) )
        => /\ request.status = "done"
           /\ Dispatched = rtRegs[i].handler
           /\ \A name \in DOMAIN Bindings(Segs(rtRegs[i].path), Segs(request.path)) :
                 Param(request.params, name)
                     = Bindings(Segs(rtRegs[i].path), Segs(request.path))[name]

\* the (method, path) table holds an entry made by this registration
InFlatTable(r) ==
    /\ r.method \in DOMAIN routes
    /\ TrimTrailingSlash(r.path) \in DOMAIN routes[r.method]

\* a route tree holds a handler for this registration
InTrie(r) ==
    LET d == Descend(root, <<>>, splitPath(r.path))
    IN d.node \in DOMAIN root /\ r.method \in DOMAIN root[d.node].handlers

\* C7: every pattern registered on the Router is in exactly one store: with
\* a ':' or '*' marker in the route tree and not in the flat table, without
\* a marker in the flat table and not in the tree.
C7_DualStorage ==
    \A i \in DOMAIN rtRegs :
        IF HasMarker(rtRegs[i].path)
        THEN InTrie(rtRegs[i]) /\ ~InFlatTable(rtRegs[i])
        ELSE InFlatTable(rtRegs[i]) /\ ~InTrie(rtRegs[i])

\* C8: for every non-root path p, a request for p + "/" resolves as a
\* request for p does (in the table and in the tree), and registering the
\* pattern p + "/" makes the route that registering p makes.
C8_TrailingSlash ==
    /\ \A p \in RouterPaths :
          (p # Slash /\ request.status # "none" /\ request.path = p \o Slash)
          => Dispatched = RouterLookup(routes, request.method, p)
    /\ \A i \in DOMAIN rtRegs, p \in RouterPaths :
          (p # Slash /\ i = Len(rtRegs) /\ rtRegs[i].path = p \o Slash)
          => RouterLookup(routes, rtRegs[i].method, p) = rtRegs[i].handler
    /\ \A i \in DOMAIN rtRegs :
          (i = Len(rtRegs) /\ rtRegs[i].path = Slash)
          => RouterLookup(routes, rtRegs[i].method, Slash) = rtRegs[i].handler
    /\ \A p \in TriePaths :
          (p # Slash /\ found # NoLookup /\ found.path = p \o Slash)
          => LET r == findRoute(root, <<>>, p, found.method)
             IN found.handler = r.handler /\ found.params = r.params

----------------------------------------------------------------------------
(* Properties of the route tree                                            *)

\* the registration whose handler a node holds last for this pattern's node
LastTrieReg(i) ==
    LET same == { j \in DOMAIN trieRegs :
                    /\ trieRegs[j].method = trieRegs[i].method
                    /\ Segs(trieRegs[j].path) = Segs(trieRegs[i].path) }
    IN trieRegs[CHOOSE j \in same : \A k \in same : k <= j]

LastRouterReg(i) ==
    LET same == { j \in DOMAIN rtRegs :
                    /\ rtRegs[j].method = rtRegs[i].method
                    /\ Segs(rtRegs[j].path) = Segs(rtRegs[i].path) }
    IN rtRegs[CHOOSE j \in same : \A k \in same : k <= j]

\* C2, for the tree: a lookup of the path of a registered all-literal
\* pattern returns the handler registered last for it, with no bindings,
\* whatever else is registered.
C2_LiteralExactTrie ==
    \A i \in DOMAIN trieRegs :
        ( /\ found # NoLookup
          /\ ~HasMarker(trieRegs[i].path)
          /\ found.method = trieRegs[i].method
          /\ Segs(found.path) = Segs(trieRegs[i].path) )
        => found.handler = LastTrieReg(i).handler /\ found.params = NoParams

\* C2: for every registered all-literal pattern and method, a request with
\* the normalized path of the pattern resolves to the handler registered
\* last for it, with no bindings: in the Router's table and in the tree.
C2_LiteralExact ==
    /\ \A i \in DOMAIN rtRegs :
          ( /\ request.status # "none"
            /\ ~HasMarker(rtRegs[i].path)
            /\ request.method = rtRegs[i].method
            /\ request.path \in { PathOf(Segs(rtRegs[i].path)),
                                  TrimTrailingSlash(rtRegs[i].path) } )
          => Dispatched = LastRouterReg(i).handler /\ request.params = NoParams
    /\ C2_LiteralExactTrie

\* C3: with one registered pattern of literals and distinctly named
\* parameters, a lookup of a path with as many segments and the same
\* literals succeeds and binds each parameter to the segment at its place.
C3_ParamBinding ==
    ( /\ Len(trieRegs) = 1
      /\ found # NoLookup
      /\ found.method = trieRegs[1].method
      /\ \A k \in DOMAIN Segs(trieRegs[1].path) : ~IsWildSeg(Segs(trieRegs[1].path)[k])
      /\ Matches(Segs(trieRegs[1].path), Segs(found.path)) )
    => /\ found.handler = trieRegs[1].handler
       /\ found.params = Bindings(Segs(trieRegs[1].path), Segs(found.path))

\* C4: with a pattern P/*name registered for the method, a lookup of a path
\* that extends P by one or more segments succeeds, and when it returns the
\* wildcard's handler, name is bound to the remaining segments joined by '/'.
C4_WildcardBinding ==
    \A i \in DOMAIN trieRegs :
        LET pat == Segs(trieRegs[i].path) IN
        ( /\ found # NoLookup
          /\ found.method = trieRegs[i].method
          /\ IsWildSeg(pat[Len(pat)])
          /\ \A k \in 1..(Len(pat) - 1) : ~IsParamSeg(pat[k])
          /\ Matches(pat, Segs(found.path)) )
        => /\ found.handler # NilHandler
           /\ found.handler = trieRegs[i].handler
                => LET name == Tail(pat[Len(pat)]) IN
                   /\ name \in DOMAIN found.params
                   /\ found.params[name] = Bindings(pat, Segs(found.path))[name]

\* the handlers some descent from the node over the remaining segments ends
\* on, whatever the order in which the children are tried
RECURSIVE Matchable(_, _, _, _, _)
Matchable(t, node, segments, index, method) ==
    IF index >= Len(segments) THEN
        IF method \in DOMAIN t[node].handlers THEN {t[node].handlers[method]} ELSE {}
    ELSE IF segments[index + 1] = <<>> THEN Matchable(t, node, segments, index + 1, method)
    ELSE
        (IF Append(node, segments[index + 1]) \in DOMAIN t
         THEN Matchable(t, Append(node, segments[index + 1]), segments, index + 1, method)
         ELSE {})
        \cup
        (IF Append(node, ParamChild) \in DOMAIN t
         THEN Matchable(t, Append(node, ParamChild), segments, index + 1, method)
         ELSE {})
        \cup
        (IF Append(node, WildChild) \in DOMAIN t
            /\ method \in DOMAIN t[Append(node, WildChild)].handlers
         THEN {t[Append(node, WildChild)].handlers[method]}
         ELSE {})

ViaLiteral(node, segments, index, method) ==
    IF Append(node, segments[index + 1]) \in DOMAIN root
    THEN Matchable(root, Append(node, segments[index + 1]), segments, index + 1, method)
    ELSE {}

ViaParam(node, segments, index, method) ==
    IF Append(node, ParamChild) \in DOMAIN root
    THEN Matchable(root, Append(node, ParamChild), segments, index + 1, method)
    ELSE {}

ViaWild(node, segments, index, method) ==
    IF Append(node, WildChild) \in DOMAIN root
       /\ method \in DOMAIN root[Append(node, WildChild)].handlers
    THEN {root[Append(node, WildChild)].handlers[method]}
    ELSE {}

\* the places of the last lookup: a node of the tree and a segment to match
Places ==
    IF found = NoLookup THEN {}
    ELSE { pl \in (DOMAIN root) \X (0..(Len(splitPath(found.path)) - 1)) :
             splitPath(found.path)[pl[2] + 1] # <<>> }

ResultAt(pl) ==
    searchRoute(root, pl[1], splitPath(found.path), pl[2], found.method, NoParams).handler

\* C5: at every node, when the literal child for the segment leads to a
\* handler for the method, the search from the node returns a handler
\* reached through that child; when it does not and the parameter child
\* does, the search returns a handler reached through the parameter child,
\* never the wildcard's. A registered literal pattern beats the parameter
\* and wildcard patterns that match the same path.
C5_Precedence ==
    /\ \A pl \in Places :
          LET segs == splitPath(found.path)
              lit == ViaLiteral(pl[1], segs, pl[2], found.method)
              par == ViaParam(pl[1], segs, pl[2], found.method)
              wild == ViaWild(pl[1], segs, pl[2], found.method)
          IN /\ lit # {} => ResultAt(pl) \in lit
             /\ (lit = {} /\ par # {}) => ResultAt(pl) \in par /\ ResultAt(pl) \notin wild
    /\ found # NoLookup => found.handler = ResultAt(<< <<>>, 0 >>)
    /\ C2_LiteralExactTrie

\* C6: at every node, when the literal child leads to no handler for the
\* method and the parameter or wildcard child does, the search from the
\* node succeeds through that child; so a lookup succeeds whenever some
\* descent ends on a handler. With /a/:x for GET and /a/b for POST, GET
\* /a/b returns the handler of /a/:x with x = "b".
C6_Backtracking ==
    /\ \A pl \in Places :
          LET segs == splitPath(found.path)
              lit == ViaLiteral(pl[1], segs, pl[2], found.method)
              par == ViaParam(pl[1], segs, pl[2], found.method)
              wild == ViaWild(pl[1], segs, pl[2], found.method)
          IN (lit = {} /\ par \cup wild # {}) => ResultAt(pl) \in par \cup wild
    /\ found # NoLookup =>
          /\ found.handler = ResultAt(<< <<>>, 0 >>)
          /\ Matchable(root, <<>>, splitPath(found.path), 0, found.method) # {}
                => found.handler
                     \in Matchable(root, <<>>, splitPath(found.path), 0, found.method)
    /\ \A i, j \in DOMAIN trieRegs :
          ( /\ Len(trieRegs) = 2
            /\ trieRegs[i].path = PathOf(<<sA, pX>>) /\ trieRegs[i].method = "GET"
            /\ trieRegs[j].path = PathOf(<<sA, sB>>) /\ trieRegs[j].method = "POST"
            /\ found.path = PathOf(<<sA, sB>>) /\ found.method = "GET" )
          => found.handler = trieRegs[i].handler /\ found.params = (<<"x">> :> sB)

\* a literal, a parameter and a wildcard route for the method meet at a node
\* and the looked-up path matches all three
C5_Witness ==
    /\ found # NoLookup
    /\ found.handler # NilHandler
    /\ \E pl \in Places :
          /\ ViaLiteral(pl[1], splitPath(found.path), pl[2], found.method) # {}
          /\ ViaParam(pl[1], splitPath(found.path), pl[2], found.method) # {}
          /\ ViaWild(pl[1], splitPath(found.path), pl[2], found.method) # {}
          /\ pl[1] # <<>>

\* the literal node for the segment exists without a handler for the method
\* and the lookup came back with the parameter route's handler and binding
C6_Witness ==
    /\ Len(trieRegs) = 2
    /\ trieRegs[1].path = PathOf(<<sA, pX>>) /\ trieRegs[1].method = "GET"
    /\ trieRegs[2].path = PathOf(<<sA, sB>>) /\ trieRegs[2].method = "POST"
    /\ found.path = PathOf(<<sA, sB>>) /\ found.method = "GET"
    /\ found.handler = 1
    /\ found.params = (<<"x">> :> sB)

----------------------------------------------------------------------------
(* Properties of the chains                                                *)

Reverse(seq) == [k \in 1..Len(seq) |-> seq[Len(seq) + 1 - k]]

\* the chain of the group the dispatched handler was registered on
GroupChain == IF Dispatched.group = 0 THEN <<>> ELSE groups[Dispatched.group].middleware

\* the interceptors around the dispatched handler, outermost first: the root
\* chain in insertion order, then the group's chain in insertion order
Stages ==
    [k \in 1..(Len(middleware) + Len(GroupChain)) |->
        IF k <= Len(middleware)
        THEN [who |-> middleware[k], chain |-> 0, pos |-> k - 1]
        ELSE [who |-> GroupChain[k - Len(middleware)], chain |-> Dispatched.group,
              pos |-> k - Len(middleware) - 1]]

Befores(stages) ==
    [k \in 1..Len(stages) |-> Event("before", stages[k].who, stages[k].chain, stages[k].pos)]

Afters(stages) ==
    [k \in 1..Len(stages) |-> Event("after", stages[k].who, stages[k].chain, stages[k].pos)]

HandlerEvent ==
    IF Dispatched.group = 0
    THEN Event("handler", Dispatched.fn, 0, Len(middleware))
    ELSE Event("handler", Dispatched.fn, Dispatched.group, Len(GroupChain))

\* the interceptor entered at trace[k] returned without calling next()
Stopped(k) ==
    /\ trace[k].ev = "before"
    /\ k < Len(trace)
    /\ trace[k + 1] = [trace[k] EXCEPT !.ev = "after"]

Entered == Len(SelectSeq(trace, LAMBDA e : e.ev = "before"))

\* C9: when every interceptor calls proceed, one request enters the root
\* chain in insertion order, then the group chain in insertion order, runs
\* the handler, and unwinds in reverse order: for root chain [L, R], group
\* chain [G] and handler H the events are L-before, R-before, G-before, H,
\* G-after, R-after, L-after.
C9_MiddlewareOrder ==
    (request.status = "done" /\ \A k \in DOMAIN trace : ~Stopped(k))
    => trace = Befores(Stages) \o <<HandlerEvent>> \o Reverse(Afters(Stages))

C9_Witness ==
    /\ request.status = "done"
    /\ middleware = <<"L", "R">>
    /\ Dispatched.group = 1
    /\ groups[1].middleware = <<"G">>
    /\ trace = << Event("before", "L", 0, 0), Event("before", "R", 0, 1),
                  Event("before", "G", 1, 0), Event("handler", Dispatched.fn, 1, 1),
                  Event("after", "G", 1, 0), Event("after", "R", 0, 1),
                  Event("after", "L", 0, 0) >>

\* C10: when an interceptor returns without calling proceed, no later
\* interceptor of its chain or of the nested group chain and not the
\* handler is invoked; its own remaining code runs, and then the
\* after-proceed code of the interceptors before it, in reverse order.
C10_ShortCircuit ==
    (request.status = "done" /\ \E k \in DOMAIN trace : Stopped(k))
    => /\ Entered <= Len(Stages)
       /\ Stopped(Entered)
       /\ trace = Befores(SubSeq(Stages, 1, Entered))
                     \o Reverse(Afters(SubSeq(Stages, 1, Entered)))
       /\ \A k \in DOMAIN trace : trace[k].ev # "handler"

\* R, second in the root chain, returned without calling proceed while a
\* group interceptor and the handler were still ahead
C10_Witness ==
    /\ request.status = "done"
    /\ middleware = <<"L", "R">>
    /\ Dispatched.group = 1
    /\ groups[1].middleware = <<"G">>
    /\ trace = << Event("before", "L", 0, 0), Event("before", "R", 0, 1),
                  Event("after", "R", 0, 1), Event("after", "L", 0, 0) >>

----------------------------------------------------------------------------
(* Properties of the groups                                                *)

\* the chain a group is to have by its history: what its parent's chain was
\* when the group was made, then the interceptors given to its own Use calls
RECURSIVE InheritedChain(_)
InheritedChain(g) ==
    (IF grpRegs[g].parent = 0 THEN <<>>
     ELSE SubSeq(InheritedChain(grpRegs[g].parent), 1, grpRegs[g].inherited))
    \o grpRegs[g].used

\* the interceptors of group g's chain the last request entered, in order
Invoked(g) ==
    LET entered == SelectSeq(trace, LAMBDA e : e.ev = "before" /\ e.chain = g)
    IN [k \in 1..Len(entered) |-> entered[k].who]

Completed == request.status = "done" /\ \A k \in DOMAIN trace : ~Stopped(k)

\* C11: the chain of every group is the chain its parent had when the group
\* was made followed by the interceptors of its own Use calls, whatever Use
\* calls were made on other groups since; a request to a route of the group
\* that runs to its handler invokes exactly these interceptors. So an
\* interceptor given to the parent after the child was made is not invoked
\* for the child's routes, one given before is, and one given to the child
\* is not invoked for routes of the parent or of a sibling.
C11_GroupSnapshot ==
    /\ \A g \in DOMAIN groups : groups[g].middleware = InheritedChain(g)
    /\ (Completed /\ Dispatched.group # 0)
          => Invoked(Dispatched.group) = InheritedChain(Dispatched.group)

\* g1 was given G, then the child g2 was made, then g1 was given B: a request
\* to g2's route ran G and not B
C11_Witness ==
    /\ Len(groups) = 2
    /\ grpRegs[2].parent = 1
    /\ groups[1].middleware = <<"G", "B">>
    /\ Completed
    /\ Dispatched.group = 2
    /\ Invoked(2) = <<"G">>
    /\ HandlerRan(Dispatched.fn)

\* the prefix a group is to have by its history: the prefixes given to its
\* ancestors' Group calls, outermost first, then its own
RECURSIVE EffectivePrefix(_)
EffectivePrefix(g) ==
    (IF grpRegs[g].parent = 0 THEN <<>> ELSE EffectivePrefix(grpRegs[g].parent))
    \o grpRegs[g].prefix

\* the full path of a registration: the path given by the caller behind the
\* effective prefix of the group it was given to
FullPath(r) ==
    IF r.handler.group = 0 THEN r.local ELSE EffectivePrefix(r.handler.group) \o r.local

\* no later registration went to the table entry of registration i
Standing(i) ==
    \A j \in DOMAIN rtRegs :
        (j > i /\ rtRegs[j].method = rtRegs[i].method)
        => TrimTrailingSlash(rtRegs[j].path) # TrimTrailingSlash(rtRegs[i].path)

\* C12: the prefix of every group is the prefixes of its ancestors followed
\* by its own, and a route given to a group with local path q is stored as a
\* direct registration of prefix + q is: a request for prefix + q with the
\* method reaches its handler, and its handler is reached by no request
\* whose method or table key is another.
C12_GroupPrefix ==
    /\ \A g \in DOMAIN groups : groups[g].prefix = EffectivePrefix(g)
    /\ \A i \in DOMAIN rtRegs :
          /\ rtRegs[i].path = FullPath(rtRegs[i])
          /\ Standing(i) =>
                routes = RouterAddRoute(routes, rtRegs[i].method, FullPath(rtRegs[i]),
                                        rtRegs[i].handler)
          /\ ( /\ Standing(i)
               /\ request.status # "none"
               /\ request.method = rtRegs[i].method
               /\ request.path = FullPath(rtRegs[i]) )
             => Dispatched = rtRegs[i].handler
          /\ (request.status # "none" /\ Dispatched = rtRegs[i].handler)
             => /\ request.method = rtRegs[i].method
                /\ TrimTrailingSlash(request.path)
                     = TrimTrailingSlash(FullPath(rtRegs[i]))

\* a route given to a group inside a group was reached at the joined path
C12_Witness ==
    /\ Len(groups) >= 2
    /\ grpRegs[2].parent = 1
    /\ request.status = "done"
    /\ request.path = ChainPrefix \o ChainPrefix \o ChainPath
    /\ Dispatched.group = 2
    /\ HandlerRan(Dispatched.fn)

----------------------------------------------------------------------------
(* Properties of lookups and registrations in both stores                  *)

Front(seq) == SubSeq(seq, 1, Len(seq) - 1)

\* the tree and the table that the registrations alone make
RECURSIVE TreeOf(_)
TreeOf(regs) ==
    IF regs = <<>> THEN (<<>> :> NewRouteNode)
    ELSE LET r == regs[Len(regs)]
         IN addRoute(TreeOf(Front(regs)), <<>>, r.path, r.method, r.handler)

RECURSIVE TableOf(_)
TableOf(regs) ==
    IF regs = <<>> THEN <<>>
    ELSE LET r == regs[Len(regs)]
         IN RouterAddRoute(TableOf(Front(regs)), r.method, r.path, r.handler)

\* C13: between registrations the stores stay what the registrations made
\* them, whatever lookups were made (no node, handler or parameter name is
\* created or changed by a lookup), and resolving the (method, path) of the
\* last lookup again gives the handler and the bindings it gave.
C13_LookupIdempotence ==
    /\ root = TreeOf(trieRegs)
    /\ routes = TableOf(rtRegs)
    /\ found # NoLookup
          => LET again == findRoute(root, <<>>, found.path, found.method)
             IN found.handler = again.handler /\ found.params = again.params
    /\ request.status # "none"
          => Dispatched = RouterLookup(routes, request.method, request.path)

\* a lookup that succeeded with bindings in a tree of several routes
C13_Witness ==
    /\ Len(trieRegs) >= 2
    /\ found # NoLookup
    /\ found.handler # NilHandler
    /\ found.params # NoParams

\* the node of the tree a registered pattern ends on
NodeOf(path) == Descend(root, <<>>, splitPath(path)).node

\* the last registration for the node and method of registration i; for the
\* table entry and method of registration i
LastAtNode(i) ==
    LET same == { j \in DOMAIN trieRegs :
                    /\ trieRegs[j].method = trieRegs[i].method
                    /\ NodeOf(trieRegs[j].path) = NodeOf(trieRegs[i].path) }
    IN trieRegs[CHOOSE j \in same : \A k \in same : k <= j]

LastAtKey(i) ==
    LET same == { j \in DOMAIN rtRegs :
                    /\ rtRegs[j].method = rtRegs[i].method
                    /\ TrimTrailingSlash(rtRegs[j].path) = TrimTrailingSlash(rtRegs[i].path) }
    IN rtRegs[CHOOSE j \in same : \A k \in same : k <= j]

Resolvable(regs, method, path) ==
    \E i \in DOMAIN regs :
        regs[i].method = method /\ Matches(Segs(regs[i].path), Segs(path))

\* C15: a lookup of a (method, path) that no registered pattern with that
\* method matches, be the path unknown or registered for other methods
\* only, gives the nil handler in the tree, and in the Router the not-found
\* answer with no interceptor and no handler run; the two cases give the
\* same outcome.
C15_NoMatch ==
    /\ (found # NoLookup /\ ~Resolvable(trieRegs, found.method, found.path))
          => found.handler = NilHandler
    /\ (request.status # "none" /\ ~Resolvable(rtRegs, request.method, request.path))
          => /\ request.status = "notfound"
             /\ Dispatched = NoRoute
             /\ trace = <<>>
             /\ stack = <<>>
             /\ cursors = <<>>

\* the path is registered, for another method only, and the lookup came
\* back with the nil handler
C15_Witness ==
    /\ Len(trieRegs) = 1
    /\ trieRegs[1].path = PathOf(<<sA, sB>>) /\ trieRegs[1].method = "POST"
    /\ found.path = PathOf(<<sA, sB>>) /\ found.method = "GET"
    /\ found.handler = NilHandler

----------------------------------------------------------------------------
(* Properties of cleanPath                                                 *)

\* C16: for every text, what cleanPath returns is not empty, begins with
\* '/', ends with '/' only when it is "/" itself, and is returned unchanged
\* by cleanPath.
C16_CleanPath ==
    cleaned # NoClean
    => /\ cleaned.output # <<>>
       /\ Head(cleaned.output) = "/"
       /\ cleaned.output[Len(cleaned.output)] = "/" => cleaned.output = Slash
       /\ cleanPath(cleaned.output) = cleaned.output

\* the part of C16 that holds of every text: not empty, begins with '/'
CleanPathRooted ==
    cleaned # NoClean => cleaned.output # <<>> /\ Head(cleaned.output) = "/"

----------------------------------------------------------------------------
(* Properties of the graceful shutdown                                     *)

\* where the first event of the kind is in the log; 0 when there is none
FirstAt(ev) ==
    IF \E k \in DOMAIN hookLog : hookLog[k].ev = ev
    THEN CHOOSE k \in DOMAIN hookLog :
            hookLog[k].ev = ev /\ \A j \in 1..(k - 1) : hookLog[j].ev # ev
    ELSE 0

FnsOf(events) == [k \in 1..Len(events) |-> events[k].fn]

\* the functions given to Router.OnShutdown before the serving call, in order
RegisteredBeforeServe ==
    FnsOf(SelectSeq(SubSeq(hookLog, 1, FirstAt("serve") - 1),
                    LAMBDA e : e.ev = "OnShutdown"))

\* the runs of those functions, in order
RunsOfRegistered ==
    FnsOf(SelectSeq(hookLog, LAMBDA e :
             e.ev = "run" /\ \E k \in DOMAIN RegisteredBeforeServe :
                                 RegisteredBeforeServe[k] = e.fn))

HooksInOrder ==
    /\ RunsOfRegistered = RegisteredBeforeServe
    /\ \A k \in DOMAIN hookLog :
          hookLog[k].ev = "run" => FirstAt("signal") < k /\ k < FirstAt("shutdown")

\* C17: when ListenAndServeWithGracefulShutdown has returned, every function
\* given to Router.OnShutdown before the call has run exactly once, in the
\* order of registration, after the signal and before the server was shut
\* down; with the default configuration and with a ShutdownConfig passed by
\* the caller.
C17_ShutdownHooks ==
    graceful.pc = "returned" => HooksInOrder

\* the part of C17 that holds: the call without a config argument
ShutdownHooksDefault ==
    (graceful.pc = "returned" /\ ~graceful.given) => HooksInOrder

----------------------------------------------------------------------------
(* Properties of the rate limiter                                          *)

\* the requests of the address passed on to `next` with a time in the
\* interval of length window that begins at from
PassedIn(ip, from) ==
    { k \in DOMAIN rlLog :
        /\ rlLog[k].ip = ip
        /\ rlLog[k].status = 200
        /\ from <= rlLog[k].at
        /\ rlLog[k].at < from + rl.window }

WithinLimit ==
    \A ip \in RemoteAddrs, from \in 0..clock :
        Cardinality(PassedIn(ip, from)) <= rl.limit

\* C18: for every remote address and every interval of length window, at
\* most limit requests of the address are passed on; this for requests
\* handled one after the other and for requests handled on goroutines that
\* run at the same time.
C18_RateLimit == WithinLimit

\* the part of C18 that holds: no request entered the limiter while another
\* was inside it
RateLimitSequential ==
    (\A r \in DOMAIN goroutines : goroutines[r].alone) => WithinLimit

----------------------------------------------------------------------------
(* Properties of the bindings                                              *)

\* the names of the parameter and wildcard segments of a pattern
NamesOf(path) ==
    { Tail(Segs(path)[k]) : k \in { j \in DOMAIN Segs(path) :
                                      IsParamSeg(Segs(path)[j]) \/ IsWildSeg(Segs(path)[j]) } }

\* the pattern whose registration gave the handler (handlers are given once)
PatternOf(handler) ==
    trieRegs[CHOOSE i \in DOMAIN trieRegs : trieRegs[i].handler = handler].path

\* C19: when findRoute returns a handler, every key of the bindings it
\* returns is the name of a parameter or wildcard segment of the pattern the
\* handler was registered for; nothing bound in a branch that was given up
\* is left.
C19_NoStaleBindings ==
    (found # NoLookup /\ found.handler # NilHandler)
    => DOMAIN found.params \subseteq NamesOf(PatternOf(found.handler))

\* the part of C19 that holds: with no wildcard pattern in the tree
NoStaleParamBindings ==
    ( /\ found # NoLookup
      /\ found.handler # NilHandler
      /\ \A i \in DOMAIN trieRegs : \A k \in DOMAIN Segs(trieRegs[i].path) :
            ~IsWildSeg(Segs(trieRegs[i].path)[k]) )
    => DOMAIN found.params \subseteq NamesOf(PatternOf(found.handler))

----------------------------------------------------------------------------
(* Properties of the chain of a registered route                           *)

\* the registration of the dispatched handler (handlers are numbered by
\* their registration)
DispatchedReg == rtRegs[Dispatched.fn]

\* C20: a request to a route registered on a group that runs to its handler
\* invokes the interceptors the group's chain held when the route was
\* registered; one given to Use on the group afterwards is not invoked.
C20_ChainCaptured ==
    (Completed /\ Dispatched.group # 0)
    => Invoked(Dispatched.group) = DispatchedReg.chain

\* the part of C20 that holds: the interceptors the group's chain held at
\* the registration are invoked first, in their order
CapturedChainRunsFirst ==
    (Completed /\ Dispatched.group # 0)
    => /\ Len(Invoked(Dispatched.group)) >= Len(DispatchedReg.chain)
       /\ SubSeq(Invoked(Dispatched.group), 1, Len(DispatchedReg.chain))
             = DispatchedReg.chain

----------------------------------------------------------------------------
(* Properties of the order inside a nested group                           *)

\* what a group took over from its parent when it was made, and what its
\* own Use calls gave it
InheritedPart(g) ==
    IF grpRegs[g].parent = 0 THEN <<>>
    ELSE SubSeq(InheritedChain(grpRegs[g].parent), 1, grpRegs[g].inherited)

OwnPart(g) == grpRegs[g].used

\* the interceptors the last request entered and left, in order
WhoOf(events) == [k \in 1..Len(events) |-> events[k].who]

EnteredWho == WhoOf(SelectSeq(trace, LAMBDA e : e.ev = "before"))

LeftWho == WhoOf(SelectSeq(trace, LAMBDA e : e.ev = "after"))

\* the request entered the interceptors in this order, then ran the
\* dispatched handler, then left them in the reverse order
RanThrough(order) ==
    /\ EnteredWho = order
    /\ LeftWho = Reverse(order)
    /\ Len(trace) = 2 * Len(order) + 1
    /\ trace[Len(order) + 1].ev = "handler"
    /\ trace[Len(order) + 1].who = Dispatched.fn

\* C21 as stated: a completed request to a route of a nested group runs the
\* root chain, then the interceptors given to the group itself, then those
\* it took over from its parent, then the handler, and unwinds in reverse.
C21_NearestGroupFirst ==
    (Completed /\ Dispatched.group # 0)
    => RanThrough(middleware \o OwnPart(Dispatched.group)
                             \o InheritedPart(Dispatched.group))

\* C21 as the code has it: a completed request to a route of a nested group
\* runs the root chain, then the interceptors the group took over from its
\* parent, then those given to the group itself, then the handler, and
\* unwinds in reverse.
C21_OuterGroupFirst ==
    (Completed /\ Dispatched.group # 0)
    => RanThrough(middleware \o InheritedPart(Dispatched.group)
                             \o OwnPart(Dispatched.group))

\* g1 was given G, the child g2 was made and given B: a request to g2's
\* route entered G, then B
C21_Witness ==
    /\ Len(groups) = 2
    /\ grpRegs[2].parent = 1
    /\ InheritedPart(2) = <<"G">>
    /\ OwnPart(2) = <<"B">>
    /\ Completed
    /\ Dispatched.group = 2
    /\ EnteredWho = <<"G", "B">>
    /\ LeftWho = <<"B", "G">>

----------------------------------------------------------------------------
(* Properties of the names of parameter and wildcard children              *)

\* the key of the child a pattern segment leads to
KeyOf(seg) ==
    IF IsParamSeg(seg) THEN ParamChild
    ELSE IF IsWildSeg(seg) THEN WildChild
    ELSE seg

\* the position of the first wildcard segment of a pattern, 0 without one
FirstWild(path) ==
    LET w == { k \in DOMAIN Segs(path) : IsWildSeg(Segs(path)[k]) }
    IN IF w = {} THEN 0 ELSE CHOOSE k \in w : \A j \in w : k <= j

\* the node a pattern's registration ends on, as the keys from the root
Track(path) ==
    LET n == IF FirstWild(path) = 0 THEN Len(Segs(path)) ELSE FirstWild(path)
    IN [k \in 1..n |-> KeyOf(Segs(path)[k])]

\* the parameter and wildcard children of the tree
NamedNodes ==
    { n \in DOMAIN root : n # <<>> /\ n[Len(n)] \in {ParamChild, WildChild} }

\* the registrations that went through a node
Writers(n) ==
    { i \in DOMAIN trieRegs :
        /\ Len(Track(trieRegs[i].path)) >= Len(n)
        /\ SubSeq(Track(trieRegs[i].path), 1, Len(n)) = n }

FirstWriter(n) == CHOOSE i \in Writers(n) : \A j \in Writers(n) : i <= j

LastWriter(n) == CHOOSE i \in Writers(n) : \A j \in Writers(n) : i >= j

\* the name registration i has for the segment that leads to node n
NameAt(i, n) == Tail(Segs(trieRegs[i].path)[Len(n)])

\* C22 as stated: a parameter or wildcard child that several patterns go
\* through under different names binds under the name of the pattern
\* registered last, and lookups bind under such names only.
C22_LastWriterWins ==
    /\ \A n \in NamedNodes : root[n].paramKey = NameAt(LastWriter(n), n)
    /\ found # NoLookup
       => DOMAIN found.params \subseteq { NameAt(LastWriter(n), n) : n \in NamedNodes }

\* C22 as the code has it: a parameter or wildcard child that several
\* patterns go through under different names binds under the name of the
\* pattern registered first, and lookups bind under such names only.
C22_FirstWriterWins ==
    /\ \A n \in NamedNodes : root[n].paramKey = NameAt(FirstWriter(n), n)
    /\ found # NoLookup
       => DOMAIN found.params \subseteq { NameAt(FirstWriter(n), n) : n \in NamedNodes }

\* /a/:x was registered, then /a/:y for the same method: /a/b is answered
\* by the second handler with b bound to x
C22_Witness ==
    /\ Len(trieRegs) >= 2
    /\ trieRegs[1].path = PathOf(<<sA, pX>>)
    /\ trieRegs[2].path = PathOf(<<sA, pY>>)
    /\ trieRegs[1].method = trieRegs[2].method
    /\ found.path = PathOf(<<sA, sB>>)
    /\ found.handler = 2
    /\ found.params = (<<"x">> :> sB)

----------------------------------------------------------------------------
(* Properties of a wildcard followed by more segments                      *)

\* the pattern up to and including its first wildcard segment
UpToWild(path) == PathOf(SubSeq(Segs(path), 1, FirstWild(path)))

\* no node of the tree lies below a wildcard child
NoNodeBelowWild ==
    \A n \in DOMAIN root : \A k \in 1..(Len(n) - 1) : n[k] # WildChild

\* a registration of a pattern with segments after its wildcard leaves the
\* tree that the registration of the pattern cut after the wildcard would
\* leave, but for the pattern text kept on the wildcard node
WildIsTerminal ==
    (Len(trieRegs') = Len(trieRegs) + 1)
    => LET reg == trieRegs'[Len(trieRegs')] IN
       (FirstWild(reg.path) # 0 /\ FirstWild(reg.path) < Len(Segs(reg.path)))
       => /\ Track(reg.path) \in DOMAIN root'
          /\ root'[Track(reg.path)].handlers[reg.method] = reg.handler
          /\ root' = [addRoute(root, <<>>, UpToWild(reg.path), reg.method, reg.handler)
                         EXCEPT ![Track(reg.path)].path = reg.path]

\* C24: the wildcard is terminal at registration: registering P/*w/extra
\* stores the handler on the wildcard node exactly as registering P/*w
\* would, makes no node after the wildcard, and is never refused.
C24_WildcardTerminal ==
    /\ []NoNodeBelowWild
    /\ [][WildIsTerminal]_vars
    /\ [](Len(trieRegs) < MaxTrieRegs
            => \A path \in NamePatterns, method \in NameMethods :
                 ENABLED (/\ root' = addRoute(root, <<>>, path, method, Len(trieRegs) + 1)
                          /\ UNCHANGED <<trieRegs, found>>
                          /\ UNCHANGED besideTrie))

\* /a/*w/b was registered last and answers /a/b/c from the wildcard node
C24_Witness ==
    /\ trieRegs # <<>>
    /\ trieRegs[Len(trieRegs)].path = PathOf(<<sA, wW, sB>>)
    /\ found.path = PathOf(<<sA, sB, sC>>)
    /\ found.handler = Len(trieRegs)
    /\ <<sA, WildChild>> \in DOMAIN root
    /\ root[<<sA, WildChild>>].handlers[found.method] = Len(trieRegs)
    /\ \A n \in DOMAIN root : Len(n) <= 2

----------------------------------------------------------------------------
(* Properties of the stored parameter values                               *)

\* a '%' of the text is not followed by two hex digits
Malformed(s) ==
    \E i \in DOMAIN s :
       /\ s[i] = "%"
       /\ (i + 2 > Len(s) \/ s[i + 1] \notin HexDigits \/ s[i + 2] \notin HexDigits)

\* the text with its escapes and plus signs replaced, front to back
RECURSIVE Decoded(_)
Decoded(s) ==
    IF s = <<>> THEN <<>>
    ELSE IF Head(s) = "%"
         THEN <<ByteChar(unhex(s[2]) * 16 + unhex(s[3]))>> \o Decoded(SubSeq(s, 4, Len(s)))
    ELSE IF Head(s) = "+" THEN <<" ">> \o Decoded(Tail(s))
    ELSE <<Head(s)>> \o Decoded(Tail(s))

\* c.Param(key)
ParamOf(key) == IF key \in DOMAIN ctx.params THEN ctx.params[key] ELSE <<>>

\* C23: after setParam(key, value), Param(key) is the value as it was given
\* when its percent-encoding is malformed, and the decoded value when it is
\* well formed.
C23_LenientDecoding ==
    ctx.called
    => ParamOf(ctx.key) = IF Malformed(ctx.value) THEN ctx.value ELSE Decoded(ctx.value)

\* the part of C23 that holds: a well-formed value is stored decoded
WellFormedStoredDecoded ==
    (ctx.called /\ ~Malformed(ctx.value)) => ParamOf(ctx.key) = Decoded(ctx.value)

----------------------------------------------------------------------------
(* Properties of requests served at once                                   *)

\* the handler a request in flight was dispatched to
FlightHandler(f) == flights[f].cursors[1].handler

\* the interceptors of the request's route, outermost first
FlightChain(f) ==
    middleware \o (IF FlightHandler(f).group = 0 THEN <<>>
                   ELSE groups[FlightHandler(f).group].middleware)

\* what runs for the request when every interceptor proceeds
FlightOrder(f) ==
    FlightChain(f) \o <<ToString(FlightHandler(f).fn)>> \o Reverse(FlightChain(f))

\* what ran for the request: the interceptors by name, the handler by number
FlightRan(f) ==
    [k \in DOMAIN flights[f].trace |->
        IF flights[f].trace[k].ev = "handler" THEN ToString(flights[f].trace[k].who)
        ELSE flights[f].trace[k].who]

IsPrefixOf(s, t) == Len(s) <= Len(t) /\ SubSeq(t, 1, Len(s)) = s

\* C25: of the requests served at once, each one runs the interceptors of
\* its own route in their full order whatever the others do, and its Context
\* holds only what was stored for this request.
C25_RequestIsolation ==
    \A f \in DOMAIN flights :
       /\ flights[f].status # "notfound"
          => /\ IsPrefixOf(FlightRan(f), FlightOrder(f))
             /\ flights[f].status = "done" => FlightRan(f) = FlightOrder(f)
       /\ \A key \in DOMAIN flights[f].store :
             /\ flights[f].store[key] = flights[f].path
             /\ \E k \in DOMAIN flights[f].trace :
                   flights[f].trace[k].ev = "before" /\ flights[f].trace[k].who = key

\* two requests to different routes were in flight together, the second
\* started and finished while the first was inside its chain, and both ran
\* their full order
C25_Witness ==
    /\ Len(flights) = 2
    /\ flights[1].path # flights[2].path
    /\ flights[1].status = "done"
    /\ flights[2].status = "done"
    /\ Len(FlightChain(1)) >= 2
    /\ Len(FlightChain(2)) >= 2
    /\ DOMAIN flights[1].store # {}
    /\ DOMAIN flights[2].store # {}

----------------------------------------------------------------------------
(* Properties of panics in the chain                                       *)

\* an interceptor call, as the events of the trace name it
FrameOf(e) == [who |-> e.who, chain |-> e.chain, pos |-> e.pos]

\* the interceptor calls of open up to the innermost one of Recovery, that
\* one left out; <<>> when Recovery is not among them
OutsideRecovery(open) ==
    LET rs == { k \in DOMAIN open : open[k].who = RecoveryMw }
    IN IF rs = {} THEN <<>>
       ELSE SubSeq(open, 1, (CHOOSE k \in rs : \A j \in rs : k >= j) - 1)

HasRecovery(open) == \E k \in DOMAIN open : open[k].who = RecoveryMw

\* reading the trace from event k with the interceptor calls in open not
\* yet left: how a trace must go on.  An interceptor is left by the one
\* entered last; after a panic nothing follows unless Recovery is open, and
\* then Recovery recovers at once and the calls outside it are what is open.
\* The result is the mode the trace ends in and what is open then.
RECURSIVE Replay(_, _)
Replay(k, open) ==
    IF k > Len(trace) THEN [mode |-> "run", open |-> open]
    ELSE LET e == trace[k] IN
         IF e.ev = "before" THEN Replay(k + 1, Append(open, FrameOf(e)))
         ELSE IF e.ev = "handler" THEN Replay(k + 1, open)
         ELSE IF e.ev = "after" THEN
              IF open # <<>> /\ open[Len(open)] = FrameOf(e)
              THEN Replay(k + 1, SubSeq(open, 1, Len(open) - 1))
              ELSE [mode |-> "wrong", open |-> open]
         ELSE IF e.ev = "panic" THEN
              IF ~HasRecovery(open)
              THEN IF k = Len(trace) THEN [mode |-> "panicked", open |-> <<>>]
                   ELSE [mode |-> "wrong", open |-> open]
              ELSE IF k = Len(trace) THEN [mode |-> "panicking", open |-> open]
              ELSE IF /\ trace[k + 1].ev = "recovered"
                      /\ FrameOf(trace[k + 1]) = open[Len(OutsideRecovery(open)) + 1]
                   THEN Replay(k + 2, OutsideRecovery(open))
                   ELSE [mode |-> "wrong", open |-> open]
         ELSE [mode |-> "wrong", open |-> open]

\* nothing is entered once something has panicked
NothingEnteredAfterPanic ==
    \A j, k \in DOMAIN trace :
       (trace[j].ev = "panic" /\ j < k) => trace[k].ev \notin {"before", "handler"}

\* C26: the engine catches nothing.  After a panic with no Recovery among
\* the interceptors entered, nothing more runs (no interceptor, no handler,
\* no after-proceed code) and the panic reaches the caller of the chain;
\* with Recovery among them, the after-proceed code of those outside Recovery
\* runs in order and that of those between Recovery and the fault never.
C26_PanicPropagation ==
    /\ NothingEnteredAfterPanic
    /\ Replay(1, <<>>).mode # "wrong"
    /\ request.status = "panicked" => Replay(1, <<>>).mode = "panicked"
    /\ Replay(1, <<>>).mode = "panicked" => request.status \in {"panicking", "panicked"}
    /\ request.status = "done" => Replay(1, <<>>) = [mode |-> "run", open |-> <<>>]
    /\ request.status = "running" => Replay(1, <<>>).mode = "run"
    /\ request.status = "panicking" => Replay(1, <<>>).mode \in {"panicking", "panicked"}

\* L, Recovery and then a group's L were entered, the handler panicked,
\* Recovery recovered, and only the outer L ran its after-proceed code
C26_Witness ==
    /\ request.status = "done"
    /\ Len(trace) = 7
    /\ WhoOf(SubSeq(trace, 1, 3)) = <<"L", RecoveryMw, "L">>
    /\ trace[4].ev = "handler"
    /\ trace[5].ev = "panic"
    /\ trace[6].ev = "recovered"
    /\ trace[7].ev = "after" /\ trace[7].who = "L" /\ trace[7].chain = 0

\* L was entered, the handler panicked, and the panic reached the caller
\* with no after-proceed code run
PanicReachedCaller ==
    /\ request.status = "panicked"
    /\ Len(trace) = 3
    /\ trace[1].ev = "before"
    /\ trace[3].ev = "panic"

----------------------------------------------------------------------------
(* Properties of the root chain and unrouted requests                      *)

\* C27: an interceptor installed with Router.Use is entered for every
\* request served, also one whose method and path match no registered
\* route.
C27_RootChainAlwaysRuns ==
    (Served /\ middleware # <<>>)
    => /\ trace # <<>>
       /\ trace[1].ev = "before"
       /\ trace[1].who = middleware[1]
       /\ trace[1].chain = 0

\* the part of C27 that holds: the root chain is entered for every request
\* that matches a route
RootChainRunsForRoutes ==
    (request.status = "done" /\ middleware # <<>>)
    => /\ trace # <<>>
       /\ trace[1].ev = "before"
       /\ trace[1].who = middleware[1]
       /\ trace[1].chain = 0

----------------------------------------------------------------------------
(* Properties of the bindings of traversed parameters                      *)

\* the node the handler found by the last lookup is kept on
MatchedTrack == Track(PatternOf(found.handler))

\* C28: when findRoute returns a handler, for every parameter child on the
\* way from the root to the handler's node the bindings map the child's
\* parameter name to the segment of the path at that depth.
C28_TraversedParamsBound ==
    (found # NoLookup /\ found.handler # NilHandler)
    => \A k \in DOMAIN MatchedTrack :
          MatchedTrack[k] = ParamChild
          => LET name == root[SubSeq(MatchedTrack, 1, k)].paramKey IN
             /\ name \in DOMAIN found.params
             /\ k \in DOMAIN Segs(found.path)
             /\ found.params[name] = Segs(found.path)[k]

\* the part of C28 that holds: for a path without a segment "*param*" or
\* "*wild*" and a pattern whose parameter names differ
ParamsBoundPlain ==
    ( /\ found # NoLookup
      /\ found.handler # NilHandler
      /\ \A k \in DOMAIN Segs(found.path) :
            Segs(found.path)[k] \notin {ParamChild, WildChild}
      /\ \A j, k \in DOMAIN MatchedTrack :
            (j # k /\ MatchedTrack[j] = ParamChild /\ MatchedTrack[k] = ParamChild)
            => root[SubSeq(MatchedTrack, 1, j)].paramKey
                  # root[SubSeq(MatchedTrack, 1, k)].paramKey )
    => \A k \in DOMAIN MatchedTrack :
          MatchedTrack[k] = ParamChild
          => LET name == root[SubSeq(MatchedTrack, 1, k)].paramKey IN
             /\ name \in DOMAIN found.params
             /\ k \in DOMAIN Segs(found.path)
             /\ found.params[name] = Segs(found.path)[k]

----------------------------------------------------------------------------
(* Properties of the chain cursor                                          *)

\* how often the interceptor at a position of a chain was entered
EnteredAt(chain, pos) ==
    Len(SelectSeq(trace, LAMBDA e : e.ev = "before" /\ e.chain = chain /\ e.pos = pos))

\* the executions of a chain whose cursor is past a position
ExecutionsPast(chain, pos) ==
    { e \in DOMAIN cursors : cursors[e].chain = chain /\ cursors[e].index > pos }

\* the cursor of every execution is within its chain, and every position
\* of a chain was entered once by each execution whose cursor is past it
CursorWithinChain ==
    /\ \A e \in DOMAIN cursors :
          /\ cursors[e].index >= 0
          /\ cursors[e].index <= Len(ChainOf(middleware, groups, cursors[e].chain))
    /\ \A chain \in {0} \cup DOMAIN groups :
          \A pos \in 0..(Len(ChainOf(middleware, groups, chain)) - 1) :
             EnteredAt(chain, pos) = Cardinality(ExecutionsPast(chain, pos))

\* while a request runs, the executions stay and no cursor goes back
CursorNeverDecreases ==
    (request.status = "running" /\ request'.status \in {"running", "done"})
    => \A e \in DOMAIN cursors :
          /\ e \in DOMAIN cursors'
          /\ cursors'[e].chain = cursors[e].chain
          /\ cursors'[e].index >= cursors[e].index

\* with no repeated next() the handler ran at most once
HandlerAtMostOnce ==
    Agains = 0 => Len(SelectSeq(trace, LAMBDA e : e.ev = "handler")) <= 1

\* C29: within one execution of a chain the cursor never decreases and
\* never exceeds the chain's length, each interceptor is entered at most
\* once per execution however often next() is called, and when every
\* interceptor calls next() at most once the handler is invoked at most once.
C29_ChainCursor ==
    /\ []CursorWithinChain
    /\ []HandlerAtMostOnce
    /\ [][CursorNeverDecreases]_vars

\* L and R are the root chain; L called next() a second time after R had
\* returned: the handler ran twice and no interceptor was entered again
C29_Witness ==
    /\ request.status = "done"
    /\ Len(middleware) = 2
    /\ Agains = 1
    /\ Len(SelectSeq(trace, LAMBDA e : e.ev = "handler")) = 2
    /\ Len(SelectSeq(trace, LAMBDA e : e.ev = "before")) = 2
    /\ cursors[1].index = 2

----------------------------------------------------------------------------
(* Properties of a failed start                                            *)

\* C30: when the listener started by ListenAndServeWithGracefulShutdown
\* fails, the call eventually returns to its caller, with or without a
\* signal.
C30_ReturnsOnListenFailure ==
    (server = "failed") ~> (graceful.pc = "returned")

\* the part of C30 that holds: once a signal has arrived the call returns
ReturnsAfterSignal ==
    (graceful.pc = "hooks") ~> (graceful.pc = "returned")

\* the listener has failed and the caller still waits for a signal
WaitingOnFailedListener ==
    server = "failed" /\ graceful.pc = "waiting"

====
